---- MODULE Spec2Model ----
(***************************************************************************)
(* Relay dispatch engine of the PVRouter (RelayEngine / relayOutput /      *)
(* EWMA_average) and the bit helpers of utils_bits.h, as a state machine.  *)
(* Integers keep the width of the C++ types they model.                    *)
(***************************************************************************)
EXTENDS Integers, Sequences, FiniteSets, TLC

VARIABLES
    relay,            \* relayOutput relay[N]: index -> fields of one relayOutput
    average,          \* EWMA_average::average (int32_t)
    settle_change,    \* RelayEngine::settle_change (uint8_t)
    overrideBitmask,  \* the caller's uint16_t passed by reference
    call,             \* the last call made on the engine and what it returned
    ticks,            \* per relay, the inc_duration calls since its last state change
    scenario,         \* the position of the caller that runs the end-to-end scenario
    i_DCoffset_V,     \* uint16_t i_DCoffset_V
    l_filterDC_V,     \* uint32_t l_filterDC_V, as its 16-bit halves <<high, low>>
    i_sampleVminusDC, \* int16_t i_sampleVminusDC
    loop,             \* the filter's caller: its last call and its loop counters
    l_sumP,           \* int32_t l_sumP
    l_sumP_atSupplyPoint, \* int32_t l_sumP_atSupplyPoint
    l_sum_Vsquared,   \* uint32_t l_sum_Vsquared
    n_samples,        \* uint16_t n_samples
    oldImpl,          \* OldImplementation oldImpl: its fields
    pinList,          \* a PinList< MaxPins >: pins[] (from index 1) and count
    overridePins,     \* an OverridePins< N, MaxPins >: entries_[] (from index 1)
    query,            \* the last call made on pinList or overridePins
    config,           \* config.h: the loads, the relays and RELAY_DIVERSION
    receiver          \* RemoteLoadReceiver: its globals, its pins and its clock

\* the relay engine and its caller's bitmask
relayVars == <<relay, average, settle_change, overrideBitmask, call, ticks>>

\* the DC offset filter
filterVars == <<i_DCoffset_V, l_filterDC_V, i_sampleVminusDC, loop>>

\* the accumulators of the power engine
powerVars == <<l_sumP, l_sumP_atSupplyPoint, l_sum_Vsquared, n_samples>>

\* the objects beside the relay engine, the filter and the power engine
otherVars == <<oldImpl, pinList, overridePins, query, config, receiver>>

\* what the operations of the filter do not touch
outsideFilter == <<relayVars, scenario, powerVars, otherVars>>

\* what the operations of the relay engine do not touch
outsideRelay == <<scenario, filterVars, powerVars, otherVars>>

\* what the operations of the power engine do not touch
outsidePower == <<relayVars, scenario, otherVars>>

vars == <<relayVars, scenario, filterVars, powerVars, otherVars>>

----------------------------------------------------------------------------
(* Integer types *)

UINT16_MAX == 65535

\* conversion of an int to int16_t (two's complement)
ToInt16(x) == ((x + 32768) % 65536) - 32768

\* conversion of an int to uint16_t
ToUint16(x) == x % 65536

\* C++ integer division, truncating toward zero
CDiv(a, b) ==
    IF (a >= 0) = (b > 0)
    THEN (IF a >= 0 THEN a ELSE -a) \div (IF b > 0 THEN b ELSE -b)
    ELSE -((IF a >= 0 THEN a ELSE -a) \div (IF b > 0 THEN b ELSE -b))

----------------------------------------------------------------------------
(* utils_bits.h *)

\* a & b on the low `n` bits of two non-negative integers
RECURSIVE BitAnd(_, _, _)
BitAnd(a, b, n) ==
    IF n = 0 THEN 0
    ELSE ((a % 2) * (b % 2)) + 2 * BitAnd(a \div 2, b \div 2, n - 1)

\* (_src >> bit) & 1
bit_read(_src, bit) == (_src \div (2 ^ bit)) % 2

\* _dest |= 1 << bit, on a uint16_t
bit_set(_dest, bit) ==
    IF bit_read(_dest, bit) = 1 THEN _dest ELSE ToUint16(_dest + 2 ^ bit)

\* _dest &= ~(1 << bit), on a uint16_t: ~ is taken on the promoted int and
\* the result is converted back, so only the low 16 bits of the mask count
bit_clear(_dest, bit) == BitAnd(_dest, UINT16_MAX - ToUint16(2 ^ bit), 16)

----------------------------------------------------------------------------
(* EWMA_average<D> *)

\* average = (average * (D - 1) + value) / D
\* an EWMA that averages over D * D values instead of D
addValue_Sluggish(avg, value, D) == CDiv(avg * (D * D - 1) + value, D * D)

addValue(avg, value, D) == CDiv(avg * (D - 1) + value, D)

----------------------------------------------------------------------------
(* relayOutput *)

\* seconds in a minute, the factor of the constructor's minON and minOFF
SecondsPerMinute == 60

\* relayOutput(pin, surplus, import_, minOn, minOff)
relayOutput(pin, surplus, import_, minOn, minOff) ==
    [ relay_pin        |-> pin,
      surplusThreshold |-> ToInt16(-surplus),
      importThreshold  |-> import_,
      minON            |-> ToUint16(minOn * SecondsPerMinute),
      minOFF           |-> ToUint16(minOff * SecondsPerMinute),
      duration         |-> 0,
      relayIsON        |-> FALSE ]

\* try_turnON without its minOFF test
try_turnON_NoDwell(r) ==
    IF r.relayIsON THEN [ret |-> FALSE, relay |-> r]
    ELSE [ret |-> TRUE, relay |-> [r EXCEPT !.relayIsON = TRUE, !.duration = 0]]

try_turnON(r) ==
    IF r.relayIsON THEN [ret |-> FALSE, relay |-> r]
    ELSE IF r.duration < r.minOFF THEN [ret |-> FALSE, relay |-> r]
    ELSE [ret |-> TRUE, relay |-> [r EXCEPT !.relayIsON = TRUE, !.duration = 0]]

\* try_turnOFF without its minON test
try_turnOFF_NoDwell(r) ==
    IF ~r.relayIsON THEN [ret |-> FALSE, relay |-> r]
    ELSE [ret |-> TRUE, relay |-> [r EXCEPT !.relayIsON = FALSE, !.duration = 0]]

\* try_turnOFF that switches the relay without restarting its duration
try_turnOFF_KeepDuration(r) ==
    IF ~r.relayIsON THEN [ret |-> FALSE, relay |-> r]
    ELSE IF r.duration < r.minON THEN [ret |-> FALSE, relay |-> r]
    ELSE [ret |-> TRUE, relay |-> [r EXCEPT !.relayIsON = FALSE]]

try_turnOFF(r) ==
    IF ~r.relayIsON THEN [ret |-> FALSE, relay |-> r]
    ELSE IF r.duration < r.minON THEN [ret |-> FALSE, relay |-> r]
    ELSE [ret |-> TRUE, relay |-> [r EXCEPT !.relayIsON = FALSE, !.duration = 0]]

\* proceed_relay that reads no override bit: only the thresholds decide
proceed_relay_NoOverride(r, currentAvgPower, mask) ==
    IF currentAvgPower < r.surplusThreshold
    THEN LET t == try_turnON(r)
         IN  [ret |-> t.ret, relay |-> t.relay,
              overrideBitmask |-> bit_clear(mask, r.relay_pin)]
    ELSE IF r.importThreshold >= 0
    THEN IF currentAvgPower > r.importThreshold
         THEN LET t == try_turnOFF(r)
              IN  [ret |-> t.ret, relay |-> t.relay, overrideBitmask |-> mask]
         ELSE [ret |-> FALSE, relay |-> r, overrideBitmask |-> mask]
    ELSE IF currentAvgPower < -r.importThreshold
         THEN LET t == try_turnOFF(r)
              IN  [ret |-> t.ret, relay |-> t.relay, overrideBitmask |-> mask]
         ELSE [ret |-> FALSE, relay |-> r, overrideBitmask |-> mask]

\* proceed_relay that clears the override bit only when the relay turns ON
proceed_relay_ClearOnSuccess(r, currentAvgPower, mask) ==
    LET isOverrideActive == bit_read(mask, r.relay_pin) # 0
    IN  IF currentAvgPower < r.surplusThreshold \/ isOverrideActive
        THEN LET t == try_turnON(r)
             IN  [ret |-> t.ret, relay |-> t.relay,
                  overrideBitmask |->
                      IF t.ret THEN bit_clear(mask, r.relay_pin) ELSE mask]
        ELSE IF r.importThreshold >= 0
        THEN IF currentAvgPower > r.importThreshold
             THEN LET t == try_turnOFF(r)
                  IN  [ret |-> t.ret, relay |-> t.relay, overrideBitmask |-> mask]
             ELSE [ret |-> FALSE, relay |-> r, overrideBitmask |-> mask]
        ELSE IF currentAvgPower < -r.importThreshold
             THEN LET t == try_turnOFF(r)
                  IN  [ret |-> t.ret, relay |-> t.relay, overrideBitmask |-> mask]
             ELSE [ret |-> FALSE, relay |-> r, overrideBitmask |-> mask]

\* proceed_relay that leaves the override bit of a relay that is already ON
proceed_relay_KeepBitWhenON(r, currentAvgPower, mask) ==
    LET isOverrideActive == bit_read(mask, r.relay_pin) # 0
    IN  IF currentAvgPower < r.surplusThreshold \/ isOverrideActive
        THEN LET t == try_turnON(r)
             IN  [ret |-> t.ret, relay |-> t.relay,
                  overrideBitmask |->
                      IF r.relayIsON THEN mask ELSE bit_clear(mask, r.relay_pin)]
        ELSE IF r.importThreshold >= 0
        THEN IF currentAvgPower > r.importThreshold
             THEN LET t == try_turnOFF(r)
                  IN  [ret |-> t.ret, relay |-> t.relay, overrideBitmask |-> mask]
             ELSE [ret |-> FALSE, relay |-> r, overrideBitmask |-> mask]
        ELSE IF currentAvgPower < -r.importThreshold
             THEN LET t == try_turnOFF(r)
                  IN  [ret |-> t.ret, relay |-> t.relay, overrideBitmask |-> mask]
             ELSE [ret |-> FALSE, relay |-> r, overrideBitmask |-> mask]

\* proceed_relay that turns the relay OFF from currentAvgPower equal to the
\* import threshold on
proceed_relay_ImportInclusive(r, currentAvgPower, mask) ==
    LET isOverrideActive == bit_read(mask, r.relay_pin) # 0
    IN  IF currentAvgPower < r.surplusThreshold \/ isOverrideActive
        THEN LET t == try_turnON(r)
             IN  [ret |-> t.ret, relay |-> t.relay,
                  overrideBitmask |-> bit_clear(mask, r.relay_pin)]
        ELSE IF r.importThreshold >= 0
        THEN IF currentAvgPower >= r.importThreshold
             THEN LET t == try_turnOFF(r)
                  IN  [ret |-> t.ret, relay |-> t.relay, overrideBitmask |-> mask]
             ELSE [ret |-> FALSE, relay |-> r, overrideBitmask |-> mask]
        ELSE IF currentAvgPower < -r.importThreshold
             THEN LET t == try_turnOFF(r)
                  IN  [ret |-> t.ret, relay |-> t.relay, overrideBitmask |-> mask]
             ELSE [ret |-> FALSE, relay |-> r, overrideBitmask |-> mask]

\* the result of relayOutput::proceed_relay: the value returned, the relay
\* afterwards and the caller's bitmask afterwards
proceed_relay(r, currentAvgPower, mask) ==
    LET isOverrideActive == bit_read(mask, r.relay_pin) # 0
    IN  IF currentAvgPower < r.surplusThreshold \/ isOverrideActive
        THEN LET t == try_turnON(r)
             IN  [ret |-> t.ret, relay |-> t.relay,
                  overrideBitmask |-> bit_clear(mask, r.relay_pin)]
        ELSE IF r.importThreshold >= 0
        THEN IF currentAvgPower > r.importThreshold
             THEN LET t == try_turnOFF(r)
                  IN  [ret |-> t.ret, relay |-> t.relay, overrideBitmask |-> mask]
             ELSE [ret |-> FALSE, relay |-> r, overrideBitmask |-> mask]
        ELSE IF currentAvgPower < -r.importThreshold
             THEN LET t == try_turnOFF(r)
                  IN  [ret |-> t.ret, relay |-> t.relay, overrideBitmask |-> mask]
             ELSE [ret |-> FALSE, relay |-> r, overrideBitmask |-> mask]

\* inc_duration without the test against UINT16_MAX: the uint16_t wraps
inc_duration_Wrap(r) ==
    [r EXCEPT !.duration = ToUint16(r.duration + 1)]

\* relayOutput::inc_duration
inc_duration(r) ==
    IF r.duration < UINT16_MAX THEN [r EXCEPT !.duration = r.duration + 1] ELSE r

----------------------------------------------------------------------------
(* RelayEngine<N, D> *)

\* the value settle_change is constructed with and reset to
SettleSeed == 60

N == Cardinality(DOMAIN relay)

\* the import branch of proceed_relays: do { relay[--idx] ... } while (idx);
\* `changed` holds the relay whose proceed_relay returned true, if any
RECURSIVE ScanDescending(_, _, _, _)
ScanDescending(rel, idx, avg, mask) ==
    LET i == idx - 1
        p == proceed_relay(rel[i], avg, mask)
        rel2 == [rel EXCEPT ![i] = p.relay]
    IN  IF p.ret
        THEN [relay |-> rel2, overrideBitmask |-> p.overrideBitmask, changed |-> {i}]
        ELSE IF i # 0
        THEN ScanDescending(rel2, i, avg, p.overrideBitmask)
        ELSE [relay |-> rel2, overrideBitmask |-> p.overrideBitmask, changed |-> {}]

\* ScanAscending that goes on to the next relay after one has changed state
RECURSIVE ScanAscending_NoStop(_, _, _, _, _)
ScanAscending_NoStop(rel, idx, n, avg, mask) ==
    LET p == proceed_relay(rel[idx], avg, mask)
        rel2 == [rel EXCEPT ![idx] = p.relay]
        hit == IF p.ret THEN {idx} ELSE {}
    IN  IF idx + 1 < n
        THEN LET s == ScanAscending_NoStop(rel2, idx + 1, n, avg, p.overrideBitmask)
             IN  [s EXCEPT !.changed = hit \cup s.changed]
        ELSE [relay |-> rel2, overrideBitmask |-> p.overrideBitmask, changed |-> hit]

\* the surplus branch of proceed_relays: do { relay[idx] ... } while (++idx < N)
RECURSIVE ScanAscending(_, _, _, _, _)
ScanAscending(rel, idx, n, avg, mask) ==
    LET p == proceed_relay(rel[idx], avg, mask)
        rel2 == [rel EXCEPT ![idx] = p.relay]
    IN  IF p.ret
        THEN [relay |-> rel2, overrideBitmask |-> p.overrideBitmask, changed |-> {idx}]
        ELSE IF idx + 1 < n
        THEN ScanAscending(rel2, idx + 1, n, avg, p.overrideBitmask)
        ELSE [relay |-> rel2, overrideBitmask |-> p.overrideBitmask, changed |-> {}]

\* proceed_relays without the early return on settle_change != 0
proceed_relays_NoSettle(rel, avg, settle, mask) ==
    LET s == IF avg > 0
             THEN ScanDescending(rel, Cardinality(DOMAIN rel), avg, mask)
             ELSE ScanAscending(rel, 0, Cardinality(DOMAIN rel), avg, mask)
    IN  [relay |-> s.relay, overrideBitmask |-> s.overrideBitmask,
         settle_change |-> IF s.changed # {} THEN SettleSeed ELSE settle,
         changed |-> s.changed]

\* proceed_relays that scans in ascending order whatever the average
proceed_relays_Ascending(rel, avg, settle, mask) ==
    IF settle # 0
    THEN [relay |-> rel, overrideBitmask |-> mask, settle_change |-> settle,
          changed |-> {}]
    ELSE LET s == ScanAscending(rel, 0, Cardinality(DOMAIN rel), avg, mask)
         IN  [relay |-> s.relay, overrideBitmask |-> s.overrideBitmask,
              settle_change |-> IF s.changed # {} THEN SettleSeed ELSE settle,
              changed |-> s.changed]

\* RelayEngine::proceed_relays: the relays, the bitmask and settle_change
\* afterwards, and the relay whose proceed_relay returned true
proceed_relays(rel, avg, settle, mask) ==
    IF settle # 0
    THEN [relay |-> rel, overrideBitmask |-> mask, settle_change |-> settle,
          changed |-> {}]
    ELSE LET s == IF avg > 0
                  THEN ScanDescending(rel, Cardinality(DOMAIN rel), avg, mask)
                  ELSE ScanAscending(rel, 0, Cardinality(DOMAIN rel), avg, mask)
         IN  [relay |-> s.relay, overrideBitmask |-> s.overrideBitmask,
              settle_change |-> IF s.changed # {} THEN SettleSeed ELSE settle,
              changed |-> s.changed]

----------------------------------------------------------------------------
(* The DC offset filter and the power accumulators as constructed *)

\* constexpr uint16_t i_DCoffset_V_nom{ 511U << 6 }
i_DCoffset_V_nom == 511 * 2 ^ 6

\* a uint32_t is kept as the pair <<high, low>> of its 16-bit halves, so
\* that each of its 2^32 values is an exact value of the model
U32(hi, lo) == <<hi, lo>>

\* static_cast< uint32_t >(x) << 15, for a uint16_t x
U32Shl15(x) == U32(x \div 2, (x % 2) * 2 ^ 15)

\* a >> 15, for a uint32_t a: a value of 17 bits
U32Shr15(a) == a[1] * 2 + a[2] \div 2 ^ 15

\* a += d, for a uint32_t a and an int16_t d: the sum modulo 2^32
U32AddInt16(a, d) ==
    LET t == a[2] + d
    IN  U32((a[1] + (t \div 2 ^ 16)) % 2 ^ 16, t % 2 ^ 16)

\* constexpr uint16_t leftAlignADC(uint16_t adc_10bit)
leftAlignADC(adc_10bit) == ToUint16(adc_10bit * 2 ^ 6)

\* (rawSample | 32U): rawSample with bit 5 set
Or32(rawSample) == IF bit_read(rawSample, 5) = 1 THEN rawSample ELSE rawSample + 32

\* processPolarity without the rounding bit
sim_processPolarity_NoRounding(rawSample, offset) == ToInt16(rawSample - offset)

\* processPolarity with a deviation that saturates instead of wrapping
sim_processPolarity_Saturating(rawSample, offset) ==
    LET d == Or32(rawSample) - offset
    IN  IF d > 32767 THEN 32767 ELSE IF d < -32768 THEN -32768 ELSE d

\* sim_processPolarity: the new value of the int16_t i_sampleVminusDC
sim_processPolarity(rawSample, offset) == ToInt16(Or32(rawSample) - offset)

\* processVoltage whose accumulator stops at 0 and at 2^32 - 1 instead of
\* wrapping
sim_processVoltage_Clamped(filterDC, sampleVminusDC) ==
    LET t == filterDC[2] + sampleVminusDC
    IN  IF filterDC[1] = 0 /\ t < 0 THEN U32(0, 0)
        ELSE IF filterDC[1] = 2 ^ 16 - 1 /\ t >= 2 ^ 16 THEN U32(2 ^ 16 - 1, 2 ^ 16 - 1)
        ELSE U32AddInt16(filterDC, sampleVminusDC)

\* processVoltage that accumulates half the deviation
sim_processVoltage_Halved(filterDC, sampleVminusDC) ==
    U32AddInt16(filterDC, sampleVminusDC \div 2)

\* processVoltage that accumulates the deviation twice
sim_processVoltage_Doubled(filterDC, sampleVminusDC) ==
    U32AddInt16(filterDC, 2 * sampleVminusDC)

\* sim_processVoltage: the new value of l_filterDC_V
sim_processVoltage(filterDC, sampleVminusDC) == U32AddInt16(filterDC, sampleVminusDC)

\* processMinusHalfCycle that rounds to the nearest instead of shifting
sim_processMinusHalfCycle_Rounded(filterDC) ==
    ToUint16(U32Shr15(U32AddInt16(filterDC, 2 ^ 14)))

\* sim_processMinusHalfCycle: the new value of the uint16_t i_DCoffset_V
sim_processMinusHalfCycle(filterDC) == ToUint16(U32Shr15(filterDC))

\* no call made on the filter yet
NoLoop ==
    [op |-> "none", adc |-> 0, adcI |-> 0, s |-> 0, cycle |-> 0, hit |-> FALSE]

\* the filter's state after its initialisers, and after resetFilter()
FilterInit ==
    /\ i_DCoffset_V = i_DCoffset_V_nom
    /\ l_filterDC_V = U32Shl15(i_DCoffset_V_nom)
    /\ i_sampleVminusDC = 0
    /\ loop = NoLoop

\* the accumulators after their initialisers
PowerInit ==
    /\ l_sumP = 0
    /\ l_sumP_atSupplyPoint = 0
    /\ l_sum_Vsquared = 0
    /\ n_samples = 0

\* OldImplementation after its initialisers
OldImplementation ==
    [l_DCoffset_V |-> 512 * 256, l_sampleVminusDC |-> 0,
     l_cumVdeltasThisCycle |-> 0, l_sumP |-> 0, l_sumP_atSupplyPoint |-> 0,
     l_sum_Vsquared |-> 0, n_samples |-> 0]

\* constexpr PinList(): pins{}, count(0)
PinList(MaxPins) == [pins |-> [i \in 1..MaxPins |-> 0], count |-> 0]

\* no call made on pinList or overridePins yet
NoQuery ==
    [op |-> "none", ctor |-> "none", header |-> "none", bitmask |-> U32(0, 0),
     pairs |-> <<>>, pins |-> <<>>, index |-> 0, pin |-> 0, ret |-> 0,
     read |-> {}]

\* the configuration of test_override_no_relay: NO_OF_DUMPLOADS{ 2 },
\* physicalLoadPin{ 5, 6 }, RELAY_DIVERSION{ false }, RelayEngine< 0 > relays
NoRelayConfig ==
    [NO_OF_DUMPLOADS |-> 2, NO_OF_REMOTE_LOADS |-> 0,
     physicalLoadPin |-> <<5, 6>>, relays |-> <<>>, RELAY_DIVERSION |-> FALSE]

\* the other objects as constructed
\* the globals of receiver.cpp as initialised, before setup(): the status, the
\* times (uint32_t as <<high, low>>), the payload, the levels of the digital
\* pins 0..15 (port, bit p for pin p), the clock millis() and the next step
\* (pc); step is the last step taken, ticks counts the advances of the clock
\* and ticked tells that it has advanced since the last step, elapsed is the
\* time since lastMessageTime was assigned, as <<multiple of 2^16, rest>>
ReceiverGlobals ==
    [ rfStatus            |-> "RF_LOST",
      lastMessageTime     |-> U32(0, 0),
      lastRedLedToggle    |-> U32(0, 0),
      previousLoadBitmask |-> 255,
      receivedData        |-> [loadBitmask |-> 0],
      port                |-> 0,
      millis              |-> U32(0, 0),
      pc                  |-> "setup",
      step                |-> [op |-> "none", received |-> FALSE, SENDERID |-> 0,
                               DATA |-> 0],
      ticks               |-> 0,
      ticked              |-> FALSE,
      elapsed             |-> <<0, 0>> ]

OtherInit ==
    /\ oldImpl = OldImplementation
    /\ pinList = PinList(4)
    /\ overridePins = <<>>
    /\ query = NoQuery
    /\ config = NoRelayConfig
    /\ receiver = ReceiverGlobals

\* no scenario is being run
NoScenario == [phase |-> "none", fed |-> 0]

OutsideRelayInit ==
    /\ scenario = NoScenario
    /\ FilterInit
    /\ PowerInit
    /\ OtherInit

----------------------------------------------------------------------------
(* The engine under test and the values fed to it *)

\* RelayEngine< 2, 1 >: the EWMA constant D of the engine under test
EngineD == 1

\* its relays: pins 2 and 3; relay 0 has minON 120, minOFF 60 and relay 1 has
\* minON 60, minOFF 120, so that each dwell outlasts the settle time somewhere
EngineRelays ==
    (0 :> relayOutput(2, 1000, 200, 2, 1)) @@ (1 :> relayOutput(3, 100, 20, 1, 2))

\* net-power readings fed to update_average: on both sides of each threshold
Powers == {-1001, -101, 0, 21, 201}

\* the values the caller gives its bitmask: every combination of the relays'
\* pins 2 and 3 and of bit 0, which is no relay's pin
Bitmasks == {0, 1, 4, 5, 8, 9, 12, 13}

\* inc_duration is called while every duration is below MaxDuration
MaxDuration == 121

\* the last call: its name; for proceed_relay the relay, the power and the
\* bitmask passed and the value returned; for proceed_relays the bitmask
\* passed, whether a relay changed state (ret) and which one (idx, N when
\* none did)
NoCall == [op |-> "none", idx |-> 0, power |-> 0, mask |-> 0, ret |-> FALSE]

Init ==
    /\ relay = EngineRelays
    /\ average = 0
    /\ settle_change = SettleSeed
    /\ overrideBitmask = 0
    /\ call = NoCall
    /\ ticks = [i \in DOMAIN relay |-> 0]
    /\ OutsideRelayInit

\* RelayEngine::update_average(value)
UpdateAverage(D, value) ==
    /\ average' = addValue(average, value, D)
    /\ call' = [op |-> "update_average", idx |-> 0, power |-> 0, mask |-> 0, ret |-> FALSE]
    /\ UNCHANGED <<relay, settle_change, overrideBitmask, ticks>>
    /\ UNCHANGED outsideRelay

\* inc_duration whose decrement of the uint8_t settle_change is not guarded:
\* it wraps from 0 to 255
IncDuration_Wrap ==
    /\ \A i \in DOMAIN relay : relay[i].duration < MaxDuration
    /\ settle_change' = (settle_change + 255) % 256
    /\ relay' = [i \in DOMAIN relay |-> inc_duration(relay[i])]
    /\ ticks' = [i \in DOMAIN relay |-> ticks[i] + 1]
    /\ call' = [op |-> "inc_duration", idx |-> 0, power |-> 0, mask |-> 0, ret |-> FALSE]
    /\ UNCHANGED <<average, overrideBitmask>>
    /\ UNCHANGED outsideRelay

\* RelayEngine::inc_duration()
IncDuration ==
    /\ \A i \in DOMAIN relay : relay[i].duration < MaxDuration
    /\ settle_change' = IF settle_change > 0 THEN settle_change - 1 ELSE settle_change
    /\ relay' = [i \in DOMAIN relay |-> inc_duration(relay[i])]
    /\ ticks' = [i \in DOMAIN relay |-> ticks[i] + 1]
    /\ call' = [op |-> "inc_duration", idx |-> 0, power |-> 0, mask |-> 0, ret |-> FALSE]
    /\ UNCHANGED <<average, overrideBitmask>>
    /\ UNCHANGED outsideRelay

\* RelayEngine::proceed_relays(overrideBitmask)
ProceedRelays ==
    LET p == proceed_relays(relay, average, settle_change, overrideBitmask)
    IN  /\ relay' = p.relay
        /\ settle_change' = p.settle_change
        /\ overrideBitmask' = p.overrideBitmask
        /\ call' = [op |-> "proceed_relays",
                    idx |-> IF p.changed = {} THEN N ELSE CHOOSE i \in p.changed : TRUE,
                    power |-> 0, mask |-> overrideBitmask, ret |-> p.changed # {}]
        /\ ticks' = [i \in DOMAIN relay |-> IF i \in p.changed THEN 0 ELSE ticks[i]]
        /\ UNCHANGED average
        /\ UNCHANGED outsideRelay

\* the caller assigns its bitmask: uint16_t overrideBitmask = m
SetOverrideBitmask(m) ==
    /\ overrideBitmask' = m
    /\ call' = [op |-> "set_bitmask", idx |-> 0, power |-> 0, mask |-> 0, ret |-> FALSE]
    /\ UNCHANGED <<relay, average, settle_change, ticks>>
    /\ UNCHANGED outsideRelay

Next ==
    \/ \E v \in Powers : UpdateAverage(EngineD, v)
    \/ IncDuration
    \/ ProceedRelays
    \/ \E m \in Bitmasks : SetOverrideBitmask(m)

Spec == Init /\ [][Next]_vars

----------------------------------------------------------------------------
(* One relay of the engine driven directly through get_relay(idx), as      *)
(* my_relay.proceed_relay(power, overrideBitmask) and                      *)
(* my_relay.inc_duration()                                                 *)

\* const auto& my_relay{ relays.get_relay(1) }
my_relay == 1

\* the engines driven this way: the engine above, and the same engine with
\* my_relay constructed with a negative import threshold
DirectEngines ==
    { EngineRelays,
      [EngineRelays EXCEPT ![my_relay] = relayOutput(3, 100, -20, 1, 2)] }

\* powers passed to proceed_relay: at and next to my_relay's thresholds
\* (-100 and 20)
RelayPowers == {-101, -100, -99, 19, 20, 21}

InitRelay ==
    /\ relay \in DirectEngines
    /\ average = 0
    /\ settle_change = SettleSeed
    /\ overrideBitmask = 0
    /\ call = NoCall
    /\ ticks = [i \in DOMAIN relay |-> 0]
    /\ OutsideRelayInit

\* relayOutput::proceed_relay(power, overrideBitmask) on relay idx
RelayProceed(idx, power) ==
    LET p == proceed_relay(relay[idx], power, overrideBitmask)
    IN  /\ relay' = [relay EXCEPT ![idx] = p.relay]
        /\ overrideBitmask' = p.overrideBitmask
        /\ call' = [op |-> "proceed_relay", idx |-> idx, power |-> power,
                    mask |-> overrideBitmask, ret |-> p.ret]
        /\ ticks' = [ticks EXCEPT ![idx] = IF p.ret THEN 0 ELSE @]
        /\ UNCHANGED <<average, settle_change>>
        /\ UNCHANGED outsideRelay

\* relayOutput::inc_duration() on relay idx
RelayIncDuration(idx) ==
    /\ relay[idx].duration < MaxDuration
    /\ relay' = [relay EXCEPT ![idx] = inc_duration(relay[idx])]
    /\ ticks' = [ticks EXCEPT ![idx] = @ + 1]
    /\ call' = [op |-> "relay_inc_duration", idx |-> idx, power |-> 0, mask |-> 0, ret |-> FALSE]
    /\ UNCHANGED <<average, settle_change, overrideBitmask>>
    /\ UNCHANGED outsideRelay

NextRelay ==
    \/ \E p \in RelayPowers : RelayProceed(my_relay, p)
    \/ RelayIncDuration(my_relay)
    \/ \E m \in Bitmasks : SetOverrideBitmask(m)

SpecRelay == InitRelay /\ [][NextRelay]_vars

----------------------------------------------------------------------------
(* The overflow scenario: the single relay of overflowTestRelays,          *)
(* { 10, 500, 100, 1, 1 }, receives inc_duration more than UINT16_MAX      *)
(* times in a row and proceed_relay(power, overrideBitmask) with           *)
(* overrideBitmask = 0                                                     *)

SatRelays == (0 :> relayOutput(10, 500, 100, 1, 1))

\* const int32_t surplus = -600; const int32_t import = 200
SatPowers == {-600, 200}

\* inc_duration is called until the relay has received MaxTicks calls
\* since its last state change: UINT16_MAX + 3
MaxTicks == 65538

InitSat ==
    /\ relay = SatRelays
    /\ average = 0
    /\ settle_change = SettleSeed
    /\ overrideBitmask = 0
    /\ call = NoCall
    /\ ticks = [i \in DOMAIN relay |-> 0]
    /\ OutsideRelayInit

\* relay.inc_duration()
SatTick ==
    /\ ticks[0] < MaxTicks
    /\ relay' = [relay EXCEPT ![0] = inc_duration(relay[0])]
    /\ ticks' = [ticks EXCEPT ![0] = @ + 1]
    /\ call' = [op |-> "relay_inc_duration", idx |-> 0, power |-> 0, mask |-> 0, ret |-> FALSE]
    /\ UNCHANGED <<average, settle_change, overrideBitmask>>
    /\ UNCHANGED outsideRelay

NextSat ==
    \/ SatTick
    \/ \E p \in SatPowers : RelayProceed(0, p)

SpecSat == InitSat /\ [][NextSat]_vars

----------------------------------------------------------------------------
(* The ordering scenario: three relays with identical thresholds and dwell *)
(* times, all OFF, fed a sustained surplus until all are ON and a          *)
(* sustained import from then on, with no override                         *)

\* the engines of the scenario: RelayEngine< 3 > of the relays
\* { 11, 500, 100, 1, 1 }, { 12, ... }, { 13, ... }, and the same with
\* minON = minOFF = 2 minutes
OrderEngines ==
    { [i \in 0..2 |-> relayOutput(11 + i, 500, 100, m, m)] : m \in {1, 2} }

\* update_average(-600) and update_average(200)
OrderSurplus == -600
OrderImport == 200

\* in the scenario inc_duration is called while every duration is below
\* OrderMaxDuration
OrderMaxDuration == 330

AllON == \A i \in DOMAIN relay : relay[i].relayIsON

InitOrder ==
    /\ relay \in OrderEngines
    /\ average = 0
    /\ settle_change = SettleSeed
    /\ overrideBitmask = 0
    /\ call = NoCall
    /\ ticks = [i \in DOMAIN relay |-> 0]
    /\ OutsideRelayInit

\* surplus is fed until every relay is ON, import from then on
FeedSurplus ==
    /\ average <= 0 /\ ~AllON
    /\ UpdateAverage(EngineD, OrderSurplus)

FeedImport ==
    /\ average > 0 \/ AllON
    /\ UpdateAverage(EngineD, OrderImport)

\* inc_duration between passes: while the engine settles, and once after
\* each pass
OrderTick ==
    /\ settle_change > 0 \/ call.op = "proceed_relays"
    /\ \A i \in DOMAIN relay : relay[i].duration < OrderMaxDuration
    /\ settle_change' = IF settle_change > 0 THEN settle_change - 1 ELSE settle_change
    /\ relay' = [i \in DOMAIN relay |-> inc_duration(relay[i])]
    /\ ticks' = [i \in DOMAIN relay |-> ticks[i] + 1]
    /\ call' = [op |-> "inc_duration", idx |-> 0, power |-> 0, mask |-> 0, ret |-> FALSE]
    /\ UNCHANGED <<average, overrideBitmask>>
    /\ UNCHANGED outsideRelay

NextOrder ==
    \/ FeedSurplus
    \/ FeedImport
    \/ OrderTick
    \/ ProceedRelays

SpecOrder == InitOrder /\ [][NextOrder]_vars

----------------------------------------------------------------------------
(* Properties of the dispatch engine *)

\* the relays whose ON/OFF state differs between the two states of a step
Switched == {i \in DOMAIN relay : relay'[i].relayIsON # relay[i].relayIsON}

\* C1 (dwell time): in every step of the engine, a relay that goes OFF->ON
\* had duration >= minOFF before the step and a relay that goes ON->OFF had
\* duration >= minON, whatever the average power and the override bitmask.
C1_DwellRespected ==
    [][\A i \in Switched :
          IF relay'[i].relayIsON
          THEN relay[i].duration >= relay[i].minOFF
          ELSE relay[i].duration >= relay[i].minON]_vars

\* relay 1 (minOFF 120) has just been turned ON by an override: the average
\* is not below its surplus threshold
C1_Witness ==
    /\ call.op = "proceed_relays" /\ call.ret /\ call.idx = 1
    /\ relay[1].relayIsON /\ relay[1].duration = 0
    /\ average >= relay[1].surplusThreshold

\* C2 (settle gating): a proceed_relays call made while settle_change is not 0
\* changes no relay (state or duration), not settle_change, and leaves the
\* caller's bitmask as it is.
C2_SettleGating ==
    [][(call'.op = "proceed_relays" /\ settle_change # 0)
          => UNCHANGED <<relay, overrideBitmask, settle_change, average>>]_vars

\* proceed_relays has just returned without effect although relay 1 is OFF
\* past its minOFF, below its surplus threshold and overridden: relay 0
\* changed state less than SettleSeed ticks ago
C2_Witness ==
    /\ call.op = "proceed_relays" /\ ~call.ret
    /\ settle_change # 0
    /\ relay[0].relayIsON /\ relay[0].duration < SettleSeed
    /\ ~relay[1].relayIsON /\ relay[1].duration >= relay[1].minOFF
    /\ average < relay[1].surplusThreshold
    /\ bit_read(overrideBitmask, relay[1].relay_pin) = 1

\* C3 (one change per pass): a proceed_relays call changes the state of at
\* most one relay; if one changes, its duration is 0 and settle_change is
\* SettleSeed afterwards; if none changes, settle_change is unchanged.
C3_OneChangePerPass ==
    [][call'.op = "proceed_relays"
          => /\ Cardinality(Switched) <= 1
             /\ \A i \in Switched : relay'[i].duration = 0
             /\ Switched # {} => settle_change' = 60
             /\ Switched = {} => settle_change' = settle_change]_vars

\* the pass has turned relay 0 ON and left relay 1 OFF, which was as
\* eligible: past its minOFF and below its surplus threshold
C3_Witness ==
    /\ call.op = "proceed_relays" /\ call.ret /\ call.idx = 0
    /\ relay[0].relayIsON /\ relay[0].duration = 0
    /\ settle_change = 60
    /\ ~relay[1].relayIsON /\ relay[1].duration >= relay[1].minOFF
    /\ average < relay[1].surplusThreshold

\* a step of the scenario keeps the order: at most one relay switches; a
\* relay is turned ON under surplus, when all relays below it are ON and all
\* above it OFF; a relay is turned OFF under import, when all relays above it
\* are OFF and all below it ON
OrderKept ==
    /\ Cardinality(Switched) <= 1
    /\ \A i \in Switched :
          /\ \A j \in DOMAIN relay : j < i => relay[j].relayIsON
          /\ \A j \in DOMAIN relay : j > i => ~relay[j].relayIsON
          /\ IF relay'[i].relayIsON THEN average < 0 ELSE average > 0

\* minON and minOFF do not exceed the settle time
ShortDwell ==
    \A i \in DOMAIN relay :
        relay[i].minON <= SettleSeed /\ relay[i].minOFF <= SettleSeed

\* C6 as stated: with identical thresholds and dwell times (whatever the
\* dwell), the relays turn ON in the order 0, 1, 2 under sustained surplus and
\* OFF in the order 2, 1, 0 under sustained import, one per pass.
C6_OrderAnyDwell == [][OrderKept]_vars

\* C6 (dispatch order, amended): the same, for identical dwell times that do
\* not exceed the settle time of 60 ticks.
C6_OrderShortDwell == [][ShortDwell => OrderKept]_vars

\* the scenario has run to its end: the pass has just turned relay 0 OFF,
\* the last one, under import
C6_Witness ==
    /\ ShortDwell
    /\ call.op = "proceed_relays" /\ call.ret /\ call.idx = 0
    /\ average > 0
    /\ \A i \in DOMAIN relay : ~relay[i].relayIsON

\* after a proceed_relays pass that ran with settle_change = 0: relay i is OFF
\* short of its minOFF and its override bit was set on entry, so that the
\* pass refused (or never tried) to turn it ON
OverrideRefused(i) ==
    /\ call.op = "proceed_relays"
    /\ call.ret \/ settle_change = 0
    /\ i # call.idx
    /\ bit_read(call.mask, relay[i].relay_pin) = 1
    /\ ~relay[i].relayIsON
    /\ relay[i].duration < relay[i].minOFF

\* the last pass called proceed_relay on relay i: no relay changed state, or
\* relay i comes before the one that did in the order of the scan
Reached(i) ==
    \/ ~call.ret
    \/ IF average > 0 THEN i > call.idx ELSE i < call.idx

\* C7 as stated: an override refused for duration < minOFF (settle_change = 0)
\* leaves the relay's bit set in the caller's bitmask.
C7_RefusedBitKept ==
    \A i \in DOMAIN relay :
        OverrideRefused(i) => bit_read(overrideBitmask, relay[i].relay_pin) = 1

\* C7 (refused override, amended): an override refused for duration < minOFF
\* (settle_change = 0) has its bit cleared in the caller's bitmask whenever
\* the pass reached the relay; the bit is still set only when the scan
\* stopped before the relay.
C7_RefusedBitConsumed ==
    \A i \in DOMAIN relay :
        OverrideRefused(i) =>
            (bit_read(overrideBitmask, relay[i].relay_pin) = 0 <=> Reached(i))

\* a pass has just refused the override of relay 1 and no relay changed
\* state: the bit that was set on entry is clear
C7_Witness ==
    /\ OverrideRefused(1)
    /\ ~call.ret
    /\ bit_read(overrideBitmask, relay[1].relay_pin) = 0

----------------------------------------------------------------------------
(* Properties of relayOutput::proceed_relay *)

\* C4 (turn-ON rule): proceed_relay on an OFF relay turns it ON and returns
\* true exactly when (power < surplusThreshold or the relay's override bit is
\* set) and duration >= minOFF; otherwise it stays OFF and false is returned.
C4_TurnOnIff ==
    [][(call'.op = "proceed_relay" /\ ~relay[call'.idx].relayIsON)
          => LET r == relay[call'.idx]
                 cond == /\ \/ call'.power < r.surplusThreshold
                            \/ bit_read(overrideBitmask, r.relay_pin) = 1
                         /\ r.duration >= r.minOFF
             IN  /\ call'.ret <=> cond
                 /\ relay'[call'.idx].relayIsON <=> cond]_vars

\* proceed_relay has just turned the relay ON with a power that is not below
\* the surplus threshold: the override bit forced it
C4_Witness ==
    /\ call.op = "proceed_relay" /\ call.ret
    /\ relay[call.idx].relayIsON /\ relay[call.idx].duration = 0
    /\ call.power >= relay[call.idx].surplusThreshold

\* C5 as stated: proceed_relay on an ON relay with importThreshold >= 0 turns
\* it OFF and returns true exactly when power > importThreshold and
\* duration >= minON, whatever the override bitmask.
C5_TurnOffIff_AnyBitmask ==
    [][(call'.op = "proceed_relay" /\ relay[call'.idx].relayIsON
            /\ relay[call'.idx].importThreshold >= 0)
          => LET r == relay[call'.idx]
                 cond == /\ call'.power > r.importThreshold
                         /\ r.duration >= r.minON
             IN  /\ call'.ret <=> cond
                 /\ ~relay'[call'.idx].relayIsON <=> cond]_vars

\* C5 (turn-OFF rule, amended): proceed_relay on an ON relay with
\* importThreshold >= 0 turns it OFF and returns true exactly when
\* power > importThreshold and duration >= minON and the turn-ON branch is not
\* taken, that is the relay's own override bit is clear and
\* power >= surplusThreshold; otherwise the relay stays ON.
C5_TurnOffIff ==
    [][(call'.op = "proceed_relay" /\ relay[call'.idx].relayIsON
            /\ relay[call'.idx].importThreshold >= 0)
          => LET r == relay[call'.idx]
                 cond == /\ call'.power > r.importThreshold
                         /\ r.duration >= r.minON
                         /\ bit_read(overrideBitmask, r.relay_pin) = 0
                         /\ call'.power >= r.surplusThreshold
             IN  /\ call'.ret <=> cond
                 /\ ~relay'[call'.idx].relayIsON <=> cond]_vars

\* proceed_relay has just turned OFF a relay with importThreshold >= 0
C5_Witness ==
    /\ call.op = "proceed_relay" /\ call.ret
    /\ ~relay[call.idx].relayIsON /\ relay[call.idx].duration = 0
    /\ relay[call.idx].importThreshold >= 0
    /\ call.power > relay[call.idx].importThreshold

\* C8 (override bit consumed): after proceed_relay on a relay whose override
\* bit was set on entry, that bit is clear, whether the relay turned ON, was
\* ON already or was refused for duration < minOFF; no other bit changed.
C8_BitConsumed ==
    (call.op = "proceed_relay" /\ bit_read(call.mask, relay[call.idx].relay_pin) = 1)
        => /\ bit_read(overrideBitmask, relay[call.idx].relay_pin) = 0
           /\ overrideBitmask = call.mask - 2 ^ relay[call.idx].relay_pin

\* proceed_relay has just left ON a relay that was ON, and cleared its
\* override bit
C8_Witness ==
    /\ call.op = "proceed_relay" /\ ~call.ret
    /\ bit_read(call.mask, relay[call.idx].relay_pin) = 1
    /\ relay[call.idx].relayIsON
    /\ bit_read(overrideBitmask, relay[call.idx].relay_pin) = 0

----------------------------------------------------------------------------
(* Properties of the duration counter *)

Min(a, b) == IF a < b THEN a ELSE b

\* the dwell relay i must have completed before it may change state
Dwell(i) == IF relay[i].relayIsON THEN relay[i].minON ELSE relay[i].minOFF

\* the last proceed_relay asked relay i, which did not change state, to
\* change: to turn ON for surplus, or to turn OFF for import
AskedToChange(i) ==
    IF relay[i].relayIsON
    THEN /\ call.power >= relay[i].surplusThreshold
         /\ call.power > relay[i].importThreshold
    ELSE call.power < relay[i].surplusThreshold

\* C9 (saturation): after n inc_duration calls without a state change the
\* duration is n up to 65535 and 65535 from then on, never a wrapped small
\* value; so proceed_relay never refuses a change to a relay that has
\* received at least its dwell in ticks, however many more it received.
C9_DurationSaturates ==
    /\ \A i \in DOMAIN relay : relay[i].duration = Min(ticks[i], UINT16_MAX)
    /\ (call.op = "proceed_relay" /\ ~call.ret /\ ticks[call.idx] >= Dwell(call.idx))
           => ~AskedToChange(call.idx)

\* the relay is ON and has received 65535 + k inc_duration calls, k >= 1,
\* since it turned ON: its duration is 65535
C9_Witness ==
    /\ relay[0].relayIsON
    /\ ticks[0] > UINT16_MAX
    /\ relay[0].duration = UINT16_MAX
    /\ call.op = "relay_inc_duration"

\* C10 (duration monotone): across a step, update_average, inc_duration or
\* proceed_relays, each relay either changed its ON/OFF state and has
\* duration 0, or kept its state and its duration did not decrease.
C10_DurationMonotone ==
    [][\A i \in DOMAIN relay :
          IF relay'[i].relayIsON # relay[i].relayIsON
          THEN relay'[i].duration = 0
          ELSE relay'[i].duration >= relay[i].duration]_vars

\* proceed_relays has just turned relay 1 OFF, restarting its duration, and
\* left relay 0 ON with the duration it had
C10_Witness ==
    /\ call.op = "proceed_relays" /\ call.ret /\ call.idx = 1
    /\ ~relay[1].relayIsON /\ relay[1].duration = 0
    /\ relay[0].relayIsON /\ relay[0].duration > 0

----------------------------------------------------------------------------
(* The engine used without override: update_average, inc_duration and      *)
(* proceed_relays with the caller's bitmask left at 0                      *)

\* the engines used this way: the engine above, and one whose relay 1 has
\* the higher import threshold and the longer minON
ShedEngines ==
    { EngineRelays,
      (0 :> relayOutput(2, 1000, 20, 1, 1)) @@ (1 :> relayOutput(3, 100, 200, 2, 1)) }

InitShed ==
    /\ relay \in ShedEngines
    /\ average = 0
    /\ settle_change = SettleSeed
    /\ overrideBitmask = 0
    /\ call = NoCall
    /\ ticks = [i \in DOMAIN relay |-> 0]
    /\ OutsideRelayInit

NextShed ==
    \/ \E v \in Powers : UpdateAverage(EngineD, v)
    \/ IncDuration
    \/ ProceedRelays

SpecShed == InitShed /\ [][NextShed]_vars

----------------------------------------------------------------------------
(* The end-to-end scenario: RelayEngine< 1 > of the relay                  *)
(* { 3, 100, 20, 1, 1 }, starting OFF.  Phase "surplus": 60 inc_duration   *)
(* and 50 update_average(-1000), then proceed_relays.  Phase "import": 50  *)
(* update_average(200), then proceed_relays at once.  Phase "wait": 60     *)
(* more inc_duration while update_average(200) goes on, then               *)
(* proceed_relays.                                                         *)

\* template < uint8_t N, uint8_t D = 10 > class RelayEngine
ScenD == 10

ScenRelays == (0 :> relayOutput(3, 100, 20, 1, 1))

ScenSurplus == -1000
ScenImport == 200

\* the inc_duration calls of a phase and the update_average calls of a phase
ScenTicks == 60
ScenFeeds == 50

InitScenario ==
    /\ relay = ScenRelays
    /\ average = 0
    /\ settle_change = SettleSeed
    /\ overrideBitmask = 0
    /\ call = NoCall
    /\ ticks = [i \in DOMAIN relay |-> 0]
    /\ scenario = [phase |-> "surplus", fed |-> 0]
    /\ FilterInit
    /\ PowerInit
    /\ OtherInit

\* inc_duration() of the phases "surplus" and "wait"
ScenTick ==
    /\ scenario.phase \in {"surplus", "wait"}
    /\ ticks[0] < ScenTicks
    /\ settle_change' = IF settle_change > 0 THEN settle_change - 1 ELSE settle_change
    /\ relay' = [i \in DOMAIN relay |-> inc_duration(relay[i])]
    /\ ticks' = [i \in DOMAIN relay |-> ticks[i] + 1]
    /\ call' = [op |-> "inc_duration", idx |-> 0, power |-> 0, mask |-> 0, ret |-> FALSE]
    /\ UNCHANGED <<average, overrideBitmask, scenario, filterVars, powerVars, otherVars>>

\* update_average(-1000) of the phase "surplus", update_average(200) of the
\* phases "import" and "wait"
ScenFeed ==
    /\ scenario.phase \in {"surplus", "import", "wait"}
    /\ scenario.fed < ScenFeeds
    /\ average' = addValue(average,
                           IF scenario.phase = "surplus" THEN ScenSurplus ELSE ScenImport,
                           ScenD)
    /\ scenario' = [scenario EXCEPT !.fed = @ + 1]
    /\ call' = [op |-> "update_average", idx |-> 0, power |-> 0, mask |-> 0, ret |-> FALSE]
    /\ UNCHANGED <<relay, settle_change, overrideBitmask, ticks, filterVars, powerVars, otherVars>>

\* proceed_relays(overrideBitmask) at the end of each phase
ScenProceed ==
    LET p == proceed_relays(relay, average, settle_change, overrideBitmask)
    IN  /\ \/ scenario.phase = "surplus" /\ ticks[0] = ScenTicks /\ scenario.fed = ScenFeeds
           \/ scenario.phase = "import" /\ scenario.fed = ScenFeeds
           \/ scenario.phase = "wait" /\ ticks[0] = ScenTicks
        /\ relay' = p.relay
        /\ settle_change' = p.settle_change
        /\ overrideBitmask' = p.overrideBitmask
        /\ call' = [op |-> "proceed_relays",
                    idx |-> IF p.changed = {} THEN N ELSE CHOOSE i \in p.changed : TRUE,
                    power |-> 0, mask |-> overrideBitmask, ret |-> p.changed # {}]
        /\ ticks' = [i \in DOMAIN relay |-> IF i \in p.changed THEN 0 ELSE ticks[i]]
        /\ scenario' = [phase |-> CASE scenario.phase = "surplus" -> "import"
                                    [] scenario.phase = "import" -> "wait"
                                    [] OTHER -> "done",
                        fed |-> 0]
        /\ UNCHANGED <<average, filterVars, powerVars, otherVars>>

NextScenario ==
    \/ ScenTick
    \/ ScenFeed
    \/ ScenProceed

SpecScenario == InitScenario /\ [][NextScenario]_vars

----------------------------------------------------------------------------
(* A relay constructed with thresholds of either sign, as                  *)
(* relayOutput relay(4, 500, 100) and relayOutput relay(4, -500, -100),    *)
(* and driven by proceed_relay and inc_duration                            *)

\* the magnitudes of the configured thresholds
CtorSurplus == 500
CtorImport == 100

CtorEngines ==
    { (0 :> relayOutput(4, s, i, 1, 1)) :
          s \in {CtorSurplus, -CtorSurplus}, i \in {CtorImport, -CtorImport} }

\* powers passed to proceed_relay: on both sides of -500, 100 and 500
CtorPowers == {-501, -499, 99, 101, 499, 501}

InitCtor ==
    /\ relay \in CtorEngines
    /\ average = 0
    /\ settle_change = SettleSeed
    /\ overrideBitmask = 0
    /\ call = NoCall
    /\ ticks = [i \in DOMAIN relay |-> 0]
    /\ OutsideRelayInit

NextCtor ==
    \/ \E p \in CtorPowers : RelayProceed(0, p)
    \/ RelayIncDuration(0)

SpecCtor == InitCtor /\ [][NextCtor]_vars

----------------------------------------------------------------------------
(* The DC offset filter driven call by call: processPolarity on a          *)
(* left-aligned sample, processVoltage, processMinusHalfCycle, and the     *)
(* assignment l_filterDC_V = val of test_q15_precision                     *)

\* the accumulator values assigned: 0, 32768, 1071513600, 2147483648 and
\* 4294967295, with 32767, 2147483647 and 32768 << 15
Q15Values ==
    { U32(0, 0), U32(0, 32767), U32(0, 32768), U32(16350, 0), U32(16384, 0),
      U32(32767, 65535), U32(32768, 0), U32(65535, 65535) }

\* the 10-bit ADC values sampled: the ends of the range, and the values
\* around the nominal offset
AdcValues == {0, 511, 512, 1023}

\* processVoltage is called up to MaxSamples times between two
\* processMinusHalfCycle, and processMinusHalfCycle up to MaxCycles times
MaxSamples == 1
MaxCycles == 1

\* l_filterDC_V = val
SetFilter(val) ==
    /\ l_filterDC_V' = val
    /\ loop' = [loop EXCEPT !.op = "set"]
    /\ UNCHANGED <<i_DCoffset_V, i_sampleVminusDC>>
    /\ UNCHANGED outsideFilter

\* sim_processPolarity(leftAlignADC(adc))
ProcessPolarity(adc) ==
    /\ i_sampleVminusDC' = sim_processPolarity(leftAlignADC(adc), i_DCoffset_V)
    /\ loop' = [loop EXCEPT !.op = "processPolarity", !.adc = adc]
    /\ UNCHANGED <<i_DCoffset_V, l_filterDC_V>>
    /\ UNCHANGED outsideFilter

\* sim_processVoltage()
ProcessVoltage ==
    /\ loop.s < MaxSamples
    /\ l_filterDC_V' = sim_processVoltage(l_filterDC_V, i_sampleVminusDC)
    /\ loop' = [loop EXCEPT !.op = "processVoltage", !.s = @ + 1]
    /\ UNCHANGED <<i_DCoffset_V, i_sampleVminusDC>>
    /\ UNCHANGED outsideFilter

\* sim_processMinusHalfCycle()
ProcessMinusHalfCycle ==
    /\ loop.cycle < MaxCycles
    /\ i_DCoffset_V' = sim_processMinusHalfCycle(l_filterDC_V)
    /\ loop' = [loop EXCEPT !.op = "processMinusHalfCycle", !.s = 0, !.cycle = @ + 1]
    /\ UNCHANGED <<l_filterDC_V, i_sampleVminusDC>>
    /\ UNCHANGED outsideFilter

NextFilter ==
    \/ \E val \in Q15Values : SetFilter(val)
    \/ \E adc \in AdcValues : ProcessPolarity(adc)
    \/ ProcessVoltage
    \/ ProcessMinusHalfCycle

SpecFilter == Init /\ [][NextFilter]_vars

----------------------------------------------------------------------------
(* processPolarity on every sample of the 10-bit ADC, with the offset at   *)
(* its nominal value, as in test_safe_operating_range                      *)

\* the largest 10-bit ADC value
AdcMax == 1023

NextDeviation == \E adc \in 0..AdcMax : ProcessPolarity(adc)

SpecDeviation == Init /\ [][NextDeviation]_vars

----------------------------------------------------------------------------
(* The filter fed a constant sample from its nominal state, as in          *)
(* test_filter_tracks_positive_offset: in each turn of the outer loop,     *)
(* samples_per_half_cycle times sim_processPolarity and                    *)
(* sim_processVoltage, then sim_processMinusHalfCycle                      *)

\* const uint16_t samples_per_half_cycle = 80
samples_per_half_cycle == 80

\* TEST_ASSERT_UINT16_WITHIN(500, expected_offset, i_DCoffset_V)
Tolerance == 500

\* the offset is within the tolerance of the target true_dc << 6
Within(offset, adc) ==
    /\ offset - leftAlignADC(adc) <= Tolerance
    /\ leftAlignADC(adc) - offset <= Tolerance

\* one turn of the inner loop on the constant sample loop.adc:
\* sim_processPolarity(leftAlignADC(true_dc)); sim_processVoltage()
LoopSample ==
    LET d == sim_processPolarity(leftAlignADC(loop.adc), i_DCoffset_V)
    IN  /\ loop.s < samples_per_half_cycle
        /\ i_sampleVminusDC' = d
        /\ l_filterDC_V' = sim_processVoltage(l_filterDC_V, d)
        /\ loop' = [loop EXCEPT !.op = "processVoltage", !.s = @ + 1]
        /\ UNCHANGED i_DCoffset_V
        /\ UNCHANGED outsideFilter

\* the end of a turn of the outer loop: sim_processMinusHalfCycle();
\* loop.hit records that the offset has been within the tolerance of its
\* target after an update
LoopUpdate ==
    LET o == sim_processMinusHalfCycle(l_filterDC_V)
    IN  /\ loop.s = samples_per_half_cycle
        /\ i_DCoffset_V' = o
        /\ loop' = [loop EXCEPT !.op = "processMinusHalfCycle", !.s = 0,
                                !.cycle = @ + 1,
                                !.hit = @ \/ Within(o, loop.adc)]
        /\ UNCHANGED <<l_filterDC_V, i_sampleVminusDC>>
        /\ UNCHANGED outsideFilter

\* the constant samples fed: true_dc = 500, 520 and 550 of the tests, the
\* nominal 511, and values further from it on both sides
ConvergeAdc == {426, 427, 500, 511, 520, 550, 606, 607}

\* the outer loop makes MaxHalfCycles turns
MaxHalfCycles == 999

\* the state before the loop, for the constant sample of ADC value a
LoopStart(a) ==
    /\ relay = EngineRelays
    /\ average = 0
    /\ settle_change = SettleSeed
    /\ overrideBitmask = 0
    /\ call = NoCall
    /\ ticks = [i \in DOMAIN relay |-> 0]
    /\ scenario = NoScenario
    /\ PowerInit
    /\ OtherInit
    /\ i_DCoffset_V = i_DCoffset_V_nom
    /\ l_filterDC_V = U32Shl15(i_DCoffset_V_nom)
    /\ i_sampleVminusDC = 0
    /\ loop = [NoLoop EXCEPT !.adc = a]

InitConverge == \E a \in ConvergeAdc : LoopStart(a)

NextConverge ==
    \/ loop.cycle < MaxHalfCycles /\ LoopSample
    \/ loop.cycle < MaxHalfCycles /\ LoopUpdate

SpecConverge == InitConverge /\ [][NextConverge]_vars

----------------------------------------------------------------------------
(* The filter with the ADC stuck at a rail, as in test_adc_stuck_at_max:   *)
(* the constant sample 1023 from the nominal state; and the constant       *)
(* sample 1022 for SwitchAt half-cycles, then the constant sample 0        *)

\* the half-cycles fed the sample 1022 before the ADC sticks at 0
SwitchAt == 3

\* the outer loop makes MaxStuckCycles turns
MaxStuckCycles == 2900

InitStuck == LoopStart(1023) \/ LoopStart(1022)

SwitchDue == loop.adc = 1022 /\ loop.cycle = SwitchAt

\* the ADC sticks at 0
Switch ==
    /\ SwitchDue
    /\ loop' = [loop EXCEPT !.adc = 0]
    /\ UNCHANGED <<i_DCoffset_V, l_filterDC_V, i_sampleVminusDC>>
    /\ UNCHANGED outsideFilter

NextStuck ==
    \/ Switch
    \/ loop.cycle < MaxStuckCycles /\ ~SwitchDue /\ LoopSample
    \/ loop.cycle < MaxStuckCycles /\ LoopUpdate

SpecStuck == InitStuck /\ [][NextStuck]_vars

----------------------------------------------------------------------------
(* The power engine on left-aligned samples (NewImplementation): per       *)
(* sample processPolarity, processCurrentRawSample and processVoltage, and *)
(* resetCycle at the start of a new period                                 *)

\* x >> n on a signed value
Shr(x, n) == x \div 2^n

\* the post-shift of the right-aligned implementation on the left-aligned
\* deviations
NewImplementation_instP_Shift12(sampleVminusDC, rawSample, offset) ==
    LET sampleIminusDC == ToInt16(Or32(rawSample) - offset)
        filtV_div4 == Shr(sampleVminusDC, 2)
        filtI_div4 == Shr(sampleIminusDC, 2)
    IN  Shr(filtV_div4 * filtI_div4, 12)

\* the instP of processCurrentRawSample: both deviations reduced to 14 bits,
\* multiplied, and scaled back
NewImplementation_instP(sampleVminusDC, rawSample, offset) ==
    LET sampleIminusDC == ToInt16(Or32(rawSample) - offset)
        filtV_div4 == Shr(sampleVminusDC, 2)
        filtI_div4 == Shr(sampleIminusDC, 2)
    IN  Shr(filtV_div4 * filtI_div4, 8)

\* the inst_Vsquared of processVoltage
NewImplementation_inst_Vsquared(sampleVminusDC) ==
    LET filtV_div4 == Shr(sampleVminusDC, 2)
    IN  Shr(filtV_div4 * filtV_div4, 8)

\* the voltage and current ADC values of test_instant_power_equivalence
VoltageAdc == {112, 612}
CurrentAdc == {312, 562}

\* processCurrentRawSample and processVoltage are each called up to
\* MaxPowerSamples times in a period, and resetCycle up to MaxResets times
MaxPowerSamples == 2
MaxResets == 1

\* processPolarity(toLeftAligned(adc))
PowerProcessPolarity(adc) ==
    /\ i_sampleVminusDC' = sim_processPolarity(leftAlignADC(adc), i_DCoffset_V)
    /\ loop' = [loop EXCEPT !.op = "processPolarity", !.adc = adc]
    /\ UNCHANGED <<i_DCoffset_V, l_filterDC_V>>
    /\ UNCHANGED outsideFilter

\* processCurrentRawSample(toLeftAligned(adc))
PowerProcessCurrentRawSample(adc) ==
    LET instP == NewImplementation_instP(i_sampleVminusDC, leftAlignADC(adc),
                                         i_DCoffset_V)
    IN  /\ loop.s < MaxPowerSamples
        /\ l_sumP' = l_sumP + instP
        /\ l_sumP_atSupplyPoint' = l_sumP_atSupplyPoint + instP
        /\ loop' = [loop EXCEPT !.op = "processCurrentRawSample", !.s = @ + 1]
        /\ UNCHANGED <<l_sum_Vsquared, n_samples>>
        /\ UNCHANGED <<i_DCoffset_V, l_filterDC_V, i_sampleVminusDC>>
        /\ UNCHANGED outsidePower

\* processVoltage()
PowerProcessVoltage ==
    /\ n_samples < MaxPowerSamples
    /\ l_sum_Vsquared' =
           l_sum_Vsquared + NewImplementation_inst_Vsquared(i_sampleVminusDC)
    /\ l_filterDC_V' = sim_processVoltage(l_filterDC_V, i_sampleVminusDC)
    /\ n_samples' = n_samples + 1
    /\ loop' = [loop EXCEPT !.op = "processVoltage"]
    /\ UNCHANGED <<l_sumP, l_sumP_atSupplyPoint>>
    /\ UNCHANGED <<i_DCoffset_V, i_sampleVminusDC>>
    /\ UNCHANGED outsidePower

\* resetCycle()
ResetCycle ==
    /\ loop.cycle < MaxResets
    /\ l_sumP' = 0
    /\ n_samples' = 0
    /\ loop' = [loop EXCEPT !.op = "resetCycle", !.s = 0, !.cycle = @ + 1]
    /\ UNCHANGED <<l_sumP_atSupplyPoint, l_sum_Vsquared>>
    /\ UNCHANGED <<i_DCoffset_V, l_filterDC_V, i_sampleVminusDC>>
    /\ UNCHANGED outsidePower

NextPower ==
    \/ \E adc \in VoltageAdc : PowerProcessPolarity(adc)
    \/ \E adc \in CurrentAdc : PowerProcessCurrentRawSample(adc)
    \/ PowerProcessVoltage
    \/ ResetCycle

SpecPower == Init /\ [][NextPower]_vars

----------------------------------------------------------------------------
(* The right-aligned and the left-aligned implementation side by side on   *)
(* one voltage and one current sample, both constructed afresh with the DC *)
(* offset at the ADC mid-point, as in test_instant_power_equivalence       *)

\* OldImplementation::processPolarity: the new l_sampleVminusDC
OldImplementation_processPolarity(rawSample, offset) == rawSample * 2^8 - offset

\* the instP of OldImplementation::processCurrentRawSample
OldImplementation_instP(sampleVminusDC, rawSample) ==
    LET sampleIminusDC == (rawSample - 512) * 2^8
        filtV_div4 == Shr(sampleVminusDC, 2)
        filtI_div4 == Shr(sampleIminusDC, 2)
    IN  Shr(filtV_div4 * filtI_div4, 12)

\* constexpr uint16_t ADC_MID_POINT = 512
ADC_MID_POINT == 512

\* the voltage samples: the ends of the range, the mid-point, the values
\* around 5 and around 45 counts from it, and the values of the test
EquivVoltageAdc ==
    {0, 112, 412, 466, 467, 468, 506, 507, 511, 512, 513, 517, 518, 556, 557,
     558, 612, 912, 1023}

\* oldTest.l_DCoffset_V = 512L * 256L; newTest.i_DCoffset_V = 512U << 6
InitEquiv ==
    /\ relay = EngineRelays
    /\ average = 0
    /\ settle_change = SettleSeed
    /\ overrideBitmask = 0
    /\ call = NoCall
    /\ ticks = [i \in DOMAIN relay |-> 0]
    /\ scenario = NoScenario
    /\ PowerInit
    /\ oldImpl = [OldImplementation EXCEPT !.l_DCoffset_V = ADC_MID_POINT * 256]
    /\ pinList = PinList(4)
    /\ overridePins = <<>>
    /\ query = NoQuery
    /\ config = NoRelayConfig
    /\ receiver = ReceiverGlobals
    /\ i_DCoffset_V = leftAlignADC(ADC_MID_POINT)
    /\ l_filterDC_V = U32Shl15(i_DCoffset_V_nom)
    /\ i_sampleVminusDC = 0
    /\ loop = NoLoop

\* oldTest.processPolarity(voltage_adc);
\* newTest.processPolarity(toLeftAligned(voltage_adc))
EquivProcessPolarity(adc) ==
    /\ loop.op = "none"
    /\ oldImpl' = [oldImpl EXCEPT !.l_sampleVminusDC =
                      OldImplementation_processPolarity(adc, oldImpl.l_DCoffset_V)]
    /\ i_sampleVminusDC' = sim_processPolarity(leftAlignADC(adc), i_DCoffset_V)
    /\ loop' = [loop EXCEPT !.op = "processPolarity", !.adc = adc]
    /\ UNCHANGED <<i_DCoffset_V, l_filterDC_V>>
    /\ UNCHANGED <<relayVars, scenario, powerVars, pinList, overridePins, query, config, receiver>>

\* oldTest.processCurrentRawSample(current_adc);
\* newTest.processCurrentRawSample(toLeftAligned(current_adc))
EquivProcessCurrentRawSample(adc) ==
    LET oldP == OldImplementation_instP(oldImpl.l_sampleVminusDC, adc)
        newP == NewImplementation_instP(i_sampleVminusDC, leftAlignADC(adc),
                                        i_DCoffset_V)
    IN  /\ loop.op = "processPolarity"
        /\ oldImpl' = [oldImpl EXCEPT !.l_sumP = @ + oldP,
                                      !.l_sumP_atSupplyPoint = @ + oldP]
        /\ l_sumP' = l_sumP + newP
        /\ l_sumP_atSupplyPoint' = l_sumP_atSupplyPoint + newP
        /\ loop' = [loop EXCEPT !.op = "processCurrentRawSample", !.adcI = adc]
        /\ UNCHANGED <<l_sum_Vsquared, n_samples>>
        /\ UNCHANGED <<i_DCoffset_V, l_filterDC_V, i_sampleVminusDC>>
        /\ UNCHANGED <<relayVars, scenario, pinList, overridePins, query, config, receiver>>

NextEquiv ==
    \/ \E adc \in EquivVoltageAdc : EquivProcessPolarity(adc)
    \/ \E adc \in 0..AdcMax : EquivProcessCurrentRawSample(adc)

SpecEquiv == InitEquiv /\ [][NextEquiv]_vars

----------------------------------------------------------------------------
(* utils_override.h: PinList, KeyIndexPair and OverridePins                *)

\* inline constexpr uint8_t REMOTE_PIN_BASE{ 128 }
REMOTE_PIN_BASE == 128

\* bitmask & (1UL << bit), for a uint32_t bitmask: 1 when the bit is set
U32Bit(bitmask, bit) ==
    IF bit < 16 THEN bit_read(bitmask[2], bit) ELSE bit_read(bitmask[1], bit - 16)

\* a | b on 16-bit values
BitOr(a, b) == a + b - BitAnd(a, b, 16)

\* the | of a set of 16-bit values
RECURSIVE BitOrAll(_)
BitOrAll(xs) ==
    IF xs = {} THEN 0
    ELSE LET x == CHOOSE y \in xs : TRUE IN BitOr(x, BitOrAll(xs \ {x}))

\* pins[count++] = pin
Append8(list, pin) ==
    [pins |-> [list.pins EXCEPT ![list.count + 1] = pin],
     count |-> list.count + 1]

\* for (uint8_t pin = 0; pin < 16 && count < MaxPins; ++pin)
RECURSIVE ExtractLocalPins(_, _, _, _)
ExtractLocalPins(list, bitmask, pin, MaxPins) ==
    IF pin < 16 /\ list.count < MaxPins
    THEN ExtractLocalPins(IF U32Bit(bitmask, pin) = 1
                          THEN Append8(list, pin) ELSE list,
                          bitmask, pin + 1, MaxPins)
    ELSE list

\* for (uint8_t i = 0; i < 8 && count < MaxPins; ++i)
RECURSIVE ExtractRemoteLoads(_, _, _, _)
ExtractRemoteLoads(list, bitmask, i, MaxPins) ==
    IF i < 8 /\ list.count < MaxPins
    THEN ExtractRemoteLoads(IF U32Bit(bitmask, 16 + i) = 1
                            THEN Append8(list, REMOTE_PIN_BASE + i) ELSE list,
                            bitmask, i + 1, MaxPins)
    ELSE list

\* a constructor that extracts the local pins only
PinList_bitmask_LocalOnly(MaxPins, bitmask) ==
    ExtractLocalPins(PinList(MaxPins), bitmask, 0, MaxPins)

\* constexpr PinList(uint32_t bitmask)
PinList_bitmask(MaxPins, bitmask) ==
    ExtractRemoteLoads(ExtractLocalPins(PinList(MaxPins), bitmask, 0, MaxPins),
                       bitmask, 0, MaxPins)

\* constexpr PinList(Args... args): pins{ static_cast< uint8_t >(args)... },
\* count(sizeof...(args))
PinList_args(MaxPins, args) ==
    [pins |-> [i \in 1..MaxPins |-> IF i <= Len(args) THEN args[i] % 256 ELSE 0],
     count |-> Len(args)]

\* what a build makes of 1U << pin for a pin of 32 or more, where the shift
\* is undefined: nothing, or the shift by the low five bits of the pin
ShiftOutcomes == {"zero", "wrap"}

\* a shift by the pin modulo 16
LocalBit_Mod16(pin, outcome) == 2 ^ (pin % 16)

\* (1U << pin) as it reaches the uint16_t result: the bits above 15 are lost
LocalBit(pin, outcome) ==
    IF pin < 16 THEN 2 ^ pin
    ELSE IF pin < 32 THEN 0
    ELSE IF outcome = "wrap" /\ pin % 32 < 16 THEN 2 ^ (pin % 32)
    ELSE 0

\* PinList::toLocalBitmask, from pins[i] on
RECURSIVE toLocalBitmaskFrom(_, _, _, _)
toLocalBitmaskFrom(list, i, result, outcome) ==
    IF i < list.count
    THEN toLocalBitmaskFrom(list, i + 1,
                            IF list.pins[i + 1] < REMOTE_PIN_BASE
                            THEN BitOr(result, LocalBit(list.pins[i + 1], outcome))
                            ELSE result,
                            outcome)
    ELSE result

\* PinList::toLocalBitmask
toLocalBitmask(list, outcome) == toLocalBitmaskFrom(list, 0, 0, outcome)

\* PinList::toRemoteBitmask, from pins[i] on
RECURSIVE toRemoteBitmaskFrom(_, _, _)
toRemoteBitmaskFrom(list, i, result) ==
    IF i < list.count
    THEN LET remoteIndex == list.pins[i + 1] - REMOTE_PIN_BASE
         IN  toRemoteBitmaskFrom(list, i + 1,
                                 IF list.pins[i + 1] >= REMOTE_PIN_BASE
                                    /\ remoteIndex < 8
                                 THEN BitOr(result, 2 ^ remoteIndex)
                                 ELSE result)
    ELSE result

\* PinList::toRemoteBitmask
toRemoteBitmask(list) == toRemoteBitmaskFrom(list, 0, 0)

----------------------------------------------------------------------------
(* A PinList constructed from a combined bitmask or from a list of pins,   *)
(* and converted to its local and its remote bitmask                       *)

\* the lower 16 bits of the bitmasks: those of the tests (0, 0b10100100,
\* pins 4 and 6, 0b11100, 0xFFFF), and single pins at the ends
BitmaskLows == {0, 1, 28, 80, 164, 2 ^ 15, UINT16_MAX}

\* the upper 16 bits: those of the tests (remote loads 0, 2, 4; 1, 3), and
\* the bits 23, 24 and 31 of the bitmask
BitmaskHighs == {0, 1, 10, 21, 2 ^ 7, 2 ^ 8, 2 ^ 8 + 1, 2 ^ 15}

\* the template argument MaxPins of the lists built from a bitmask
BitmaskMaxPins == {4, 8, 16}

\* the lists of pins: those of the tests, and pins of 16 and more, of 32 and
\* more, and virtual pins of 136 and more
PinArgs ==
    { <<>>, <<7>>, <<2, 5, 8>>, <<2, 5, 8, 11>>, <<128>>, <<128, 130, 133>>,
      <<5, 128, 8, 131>>, <<4, 5, 129, 131>>, <<0, 15>>, <<16>>, <<31, 3>>,
      <<33>>, <<127, 2>>, <<135, 136>>, <<255>> }

\* the template argument MaxPins of the lists built from pins
ArgsMaxPins == 4

\* constexpr PinList< MaxPins > list{ bitmask }
ConstructFromBitmask(MaxPins, bitmask) ==
    /\ pinList' = PinList_bitmask(MaxPins, bitmask)
    /\ query' = [NoQuery EXCEPT !.op = "PinList", !.ctor = "bitmask",
                                !.bitmask = bitmask]
    /\ UNCHANGED <<oldImpl, overridePins, config, receiver>>
    /\ UNCHANGED <<relayVars, scenario, filterVars, powerVars>>

\* constexpr PinList< MaxPins > list{ args... }
ConstructFromPins(MaxPins, args) ==
    /\ pinList' = PinList_args(MaxPins, args)
    /\ query' = [NoQuery EXCEPT !.op = "PinList", !.ctor = "args"]
    /\ UNCHANGED <<oldImpl, overridePins, config, receiver>>
    /\ UNCHANGED <<relayVars, scenario, filterVars, powerVars>>

\* list.toLocalBitmask()
ToLocalBitmask(outcome) ==
    /\ query.ctor # "none"
    /\ query' = [query EXCEPT !.op = "toLocalBitmask",
                              !.ret = toLocalBitmask(pinList, outcome)]
    /\ UNCHANGED <<oldImpl, pinList, overridePins, config, receiver>>
    /\ UNCHANGED <<relayVars, scenario, filterVars, powerVars>>

\* list.toRemoteBitmask()
ToRemoteBitmask ==
    /\ query.ctor # "none"
    /\ query' = [query EXCEPT !.op = "toRemoteBitmask",
                              !.ret = toRemoteBitmask(pinList)]
    /\ UNCHANGED <<oldImpl, pinList, overridePins, config, receiver>>
    /\ UNCHANGED <<relayVars, scenario, filterVars, powerVars>>

NextPinList ==
    \/ \E m \in BitmaskMaxPins, hi \in BitmaskHighs, lo \in BitmaskLows :
           ConstructFromBitmask(m, U32(hi, lo))
    \/ \E args \in PinArgs : ConstructFromPins(ArgsMaxPins, args)
    \/ \E outcome \in ShiftOutcomes : ToLocalBitmask(outcome)
    \/ ToRemoteBitmask

SpecPinList == Init /\ [][NextPinList]_vars

----------------------------------------------------------------------------
(* An OverridePins constructed from an array of KeyIndexPair, and its      *)
(* accessors                                                               *)

\* constexpr KeyIndexPair(uint8_t k, const PinList< MaxPins >& list)
KeyIndexPair(k, list) == [pin |-> k, indexList |-> list]

\* OverridePins::OverridePins: entries_[i] = { pairs[i].pin,
\* pairs[i].getLocalBitmask(), pairs[i].getRemoteBitmask() }
OverridePins(pairs, outcome) ==
    [i \in 1..Len(pairs) |->
        [pin |-> pairs[i].pin,
         localBitmask |-> toLocalBitmask(pairs[i].indexList, outcome),
         remoteBitmask |-> toRemoteBitmask(pairs[i].indexList)]]

\* an accessor that reads the last entry for an index past the end
getPin_Clamped(entries, index) ==
    IF index < Len(entries)
    THEN [ret |-> entries[index + 1].pin, read |-> {index}]
    ELSE [ret |-> entries[Len(entries)].pin, read |-> {Len(entries) - 1}]

\* OverridePins::getPin: the value returned and the indices of entries_ read
getPin(entries, index) ==
    IF index < Len(entries)
    THEN [ret |-> entries[index + 1].pin, read |-> {index}]
    ELSE [ret |-> 0, read |-> {}]

\* OverridePins::getLocalBitmask
getLocalBitmask(entries, index) ==
    IF index < Len(entries)
    THEN [ret |-> entries[index + 1].localBitmask, read |-> {index}]
    ELSE [ret |-> 0, read |-> {}]

\* OverridePins::getRemoteBitmask
getRemoteBitmask(entries, index) ==
    IF index < Len(entries)
    THEN [ret |-> entries[index + 1].remoteBitmask, read |-> {index}]
    ELSE [ret |-> 0, read |-> {}]

\* the loop of findLocalBitmask and findRemoteBitmask from entries_[i] on:
\* the index of the first entry with the pin, or N
RECURSIVE FindEntry(_, _, _)
FindEntry(entries, pin, i) ==
    IF i < Len(entries)
    THEN IF entries[i + 1].pin = pin THEN i ELSE FindEntry(entries, pin, i + 1)
    ELSE Len(entries)

\* a lookup that returns the bitmask of the last entry with the pin
findLocalBitmask_Last(entries, pin) ==
    LET hits == {k \in 1..Len(entries) : entries[k].pin = pin}
    IN  IF hits = {} THEN 0
        ELSE entries[CHOOSE k \in hits : \A j \in hits : j <= k].localBitmask

\* OverridePins::findLocalBitmask
findLocalBitmask(entries, pin) ==
    LET i == FindEntry(entries, pin, 0)
    IN  IF i < Len(entries) THEN entries[i + 1].localBitmask ELSE 0

\* OverridePins::findRemoteBitmask
findRemoteBitmask(entries, pin) ==
    LET i == FindEntry(entries, pin, 0)
    IN  IF i < Len(entries) THEN entries[i + 1].remoteBitmask ELSE 0

\* the pins of the lists of the pairs: those of the tests, and pins of 16
\* and more, of 32 and more, and virtual pins of 136 and more
OverrideArgs ==
    { <<4, 5>>, <<128, 129>>, <<6, 7, 130>>, <<16, 3>>, <<33>>, <<135, 136>> }

\* the lists of the pairs: PinList< 4 > built from pins
OverrideLists == {PinList_args(ArgsMaxPins, args) : args \in OverrideArgs}

\* the trigger pins of the pairs
TriggerPins == {2, 10, 11}

\* the pairs
OverridePairs == {KeyIndexPair(k, list) : k \in TriggerPins, list \in OverrideLists}

\* the three entries of test_OverridePins_multiple_entries_mixed
MixedPairs ==
    << KeyIndexPair(2, PinList_args(6, <<4, 5>>)),
       KeyIndexPair(3, PinList_args(6, <<128, 129>>)),
       KeyIndexPair(4, PinList_args(6, <<6, 7, 130>>)) >>

\* the arrays of pairs: every array of one or two pairs, and MixedPairs
OverridePairArrays ==
    {<<a>> : a \in OverridePairs}
        \cup {<<a, b>> : a \in OverridePairs, b \in OverridePairs}
        \cup {MixedPairs}

\* the indices passed to the accessors
Indices == {0, 1, 2, 3, 99, 255}

\* the pins looked up
LookupPins == {0, 2, 3, 10, 11, 99}

\* constexpr OverridePins pins{ pairs }
ConstructOverridePins(pairs, outcome) ==
    /\ query.op = "none"
    /\ overridePins' = OverridePins(pairs, outcome)
    /\ query' = [NoQuery EXCEPT !.op = "OverridePins", !.ctor = "pairs",
                                !.pairs = pairs]
    /\ UNCHANGED <<oldImpl, pinList, config, receiver>>
    /\ UNCHANGED <<relayVars, scenario, filterVars, powerVars>>

\* the record of a call on pins that returned r
Answer(op, index, pin, r) ==
    [query EXCEPT !.op = op, !.index = index, !.pin = pin, !.ret = r.ret,
                  !.read = r.read]

\* pins.getPin(index)
GetPin(index) ==
    /\ query.ctor = "pairs"
    /\ query' = Answer("getPin", index, 0, getPin(overridePins, index))
    /\ UNCHANGED <<oldImpl, pinList, overridePins, config, receiver>>
    /\ UNCHANGED <<relayVars, scenario, filterVars, powerVars>>

\* pins.getLocalBitmask(index)
GetLocalBitmask(index) ==
    /\ query.ctor = "pairs"
    /\ query' = Answer("getLocalBitmask", index, 0,
                       getLocalBitmask(overridePins, index))
    /\ UNCHANGED <<oldImpl, pinList, overridePins, config, receiver>>
    /\ UNCHANGED <<relayVars, scenario, filterVars, powerVars>>

\* pins.getRemoteBitmask(index)
GetRemoteBitmask(index) ==
    /\ query.ctor = "pairs"
    /\ query' = Answer("getRemoteBitmask", index, 0,
                       getRemoteBitmask(overridePins, index))
    /\ UNCHANGED <<oldImpl, pinList, overridePins, config, receiver>>
    /\ UNCHANGED <<relayVars, scenario, filterVars, powerVars>>

\* pins.findLocalBitmask(pin)
FindLocalBitmask(pin) ==
    /\ query.ctor = "pairs"
    /\ query' = Answer("findLocalBitmask", 0, pin,
                       [ret |-> findLocalBitmask(overridePins, pin), read |-> {}])
    /\ UNCHANGED <<oldImpl, pinList, overridePins, config, receiver>>
    /\ UNCHANGED <<relayVars, scenario, filterVars, powerVars>>

\* pins.findRemoteBitmask(pin)
FindRemoteBitmask(pin) ==
    /\ query.ctor = "pairs"
    /\ query' = Answer("findRemoteBitmask", 0, pin,
                       [ret |-> findRemoteBitmask(overridePins, pin), read |-> {}])
    /\ UNCHANGED <<oldImpl, pinList, overridePins, config, receiver>>
    /\ UNCHANGED <<relayVars, scenario, filterVars, powerVars>>

NextOverride ==
    \/ \E pairs \in OverridePairArrays, outcome \in ShiftOutcomes :
           ConstructOverridePins(pairs, outcome)
    \/ \E index \in Indices : GetPin(index)
    \/ \E index \in Indices : GetLocalBitmask(index)
    \/ \E index \in Indices : GetRemoteBitmask(index)
    \/ \E pin \in LookupPins : FindLocalBitmask(pin)
    \/ \E pin \in LookupPins : FindRemoteBitmask(pin)

SpecOverride == Init /\ [][NextOverride]_vars

----------------------------------------------------------------------------
(* are_pins_valid< Pins... >() on lists of pins                            *)

\* constexpr uint16_t validPinMask{ 0b11111111111100 }
validPinMask == 16380

\* a test against the pins 2-15
PinIsValid_UpTo15(pin, outcome) == pin >= 2 /\ pin < 16

\* validPinMask & (1U << pin), as a condition: the mask has no bit above 15;
\* for a pin of 32 or more the shift is undefined
PinIsValid(pin, outcome) ==
    IF pin < 16 THEN bit_read(validPinMask, pin) = 1
    ELSE IF pin < 32 THEN FALSE
    ELSE /\ outcome = "wrap"
         /\ pin % 32 < 16
         /\ bit_read(validPinMask, pin % 32) = 1

\* ((validPinMask & (1U << Pins)) && ...)
are_pins_valid(Pins, outcome) ==
    \A i \in 1..Len(Pins) : PinIsValid(Pins[i], outcome)

\* the pins validated: those of the tests, and pins of 16 and more and of 32
\* and more
ValidationPins == {0, 1, 2, 5, 7, 10, 13, 14, 15, 16, 31, 32, 34, 45, 255}

\* the lists validated: every list of one or two of these pins, and the
\* lists of four and of twelve pins of test_are_pins_valid_all_valid
PinPacks ==
    {<<a>> : a \in ValidationPins}
        \cup {<<a, b>> : a \in ValidationPins, b \in ValidationPins}
        \cup {<<2, 7, 10, 13>>, <<2, 3, 4, 5, 6, 7, 8, 9, 10, 11, 12, 13>>}

\* are_pins_valid< Pins... >()
ArePinsValid(Pins, outcome) ==
    /\ query' = [NoQuery EXCEPT !.op = "are_pins_valid", !.pins = Pins,
                                !.ret = are_pins_valid(Pins, outcome)]
    /\ UNCHANGED <<oldImpl, pinList, overridePins, config, receiver>>
    /\ UNCHANGED <<relayVars, scenario, filterVars, powerVars>>

NextValid ==
    \E Pins \in PinPacks, outcome \in ShiftOutcomes : ArePinsValid(Pins, outcome)

SpecValid == Init /\ [][NextValid]_vars

----------------------------------------------------------------------------
(* The aggregate masks of utils_override_helpers.h and of utils_override.h *)
(* over configurations of loads and relays                                 *)

\* a | b on uint32_t values
U32Or(a, b) == U32(BitOr(a[1], b[1]), BitOr(a[2], b[2]))

\* bit_set(mask, bit) on a uint32_t mask, for a bit below 32
bit_set32(mask, bit) ==
    IF bit < 16 THEN U32(mask[1], BitOr(mask[2], 2 ^ bit))
    ELSE U32(BitOr(mask[1], 2 ^ (bit - 16)), mask[2])

\* for (uint8_t i = ...; i < n; ++i) bit_set(mask, bitOf[i]), from i on,
\* bitOf being indexed from 1
RECURSIVE SetBitsFrom(_, _, _, _)
SetBitsFrom(mask, bitOf, i, n) ==
    IF i < n THEN SetBitsFrom(bit_set32(mask, bitOf[i + 1]), bitOf, i + 1, n)
    ELSE mask

\* ALL_LOCAL_LOADS()
ALL_LOCAL_LOADS(cfg) ==
    SetBitsFrom(U32(0, 0), cfg.physicalLoadPin, 0,
                cfg.NO_OF_DUMPLOADS - cfg.NO_OF_REMOTE_LOADS)

\* ALL_REMOTE_LOADS(): bit_set(mask, 16 + i)
ALL_REMOTE_LOADS(cfg) ==
    SetBitsFrom(U32(0, 0), [i \in 1..cfg.NO_OF_REMOTE_LOADS |-> 16 + (i - 1)], 0,
                cfg.NO_OF_REMOTE_LOADS)

\* ALL_LOADS()
ALL_LOADS(cfg) == U32Or(ALL_LOCAL_LOADS(cfg), ALL_REMOTE_LOADS(cfg))

\* ALL_RELAYS() of utils_override.h: the loop over the relays
ALL_RELAYS_override(cfg) ==
    SetBitsFrom(U32(0, 0), cfg.relays, 0, Len(cfg.relays))

\* ALL_RELAYS() of utils_override_helpers.h: the loop under
\* if constexpr (RELAY_DIVERSION), else 0
ALL_RELAYS(cfg) ==
    IF cfg.RELAY_DIVERSION
    THEN SetBitsFrom(U32(0, 0), cfg.relays, 0, Len(cfg.relays))
    ELSE U32(0, 0)

\* ALL_LOADS_AND_RELAYS() of utils_override.h
ALL_LOADS_AND_RELAYS_override(cfg) == U32Or(ALL_LOADS(cfg), ALL_RELAYS_override(cfg))

\* ALL_LOADS_AND_RELAYS() of utils_override_helpers.h
ALL_LOADS_AND_RELAYS(cfg) == U32Or(ALL_LOADS(cfg), ALL_RELAYS(cfg))

\* the two headers that define the masks
Headers == {"utils_override_helpers.h", "utils_override.h"}

\* the value of the mask fn as the header defines it
MaskOf(header, fn, cfg) ==
    CASE fn = "ALL_LOCAL_LOADS" -> ALL_LOCAL_LOADS(cfg)
      [] fn = "ALL_REMOTE_LOADS" -> ALL_REMOTE_LOADS(cfg)
      [] fn = "ALL_LOADS" -> ALL_LOADS(cfg)
      [] fn = "ALL_RELAYS" ->
             IF header = "utils_override.h" THEN ALL_RELAYS_override(cfg)
             ELSE ALL_RELAYS(cfg)
      [] fn = "ALL_LOADS_AND_RELAYS" ->
             IF header = "utils_override.h" THEN ALL_LOADS_AND_RELAYS_override(cfg)
             ELSE ALL_LOADS_AND_RELAYS(cfg)

MaskFunctions ==
    {"ALL_LOCAL_LOADS", "ALL_REMOTE_LOADS", "ALL_LOADS", "ALL_RELAYS",
     "ALL_LOADS_AND_RELAYS"}

\* the pins of the local loads, among the physical pins 2-13
LoadPinLists == {<<>>, <<5>>, <<5, 6>>, <<5, 6, 7>>, <<2, 13>>}

\* the numbers of remote loads
RemoteLoadCounts == {0, 1, 2, 8}

\* the pins of the relays, among the physical pins 2-13
RelayPinLists == {<<>>, <<4>>, <<3, 4>>, <<8, 9, 10>>}

\* the configurations
Configs ==
    {[NO_OF_DUMPLOADS |-> Len(l) + r, NO_OF_REMOTE_LOADS |-> r,
      physicalLoadPin |-> l, relays |-> p, RELAY_DIVERSION |-> d] :
        l \in LoadPinLists, r \in RemoteLoadCounts, p \in RelayPinLists,
        d \in BOOLEAN}

InitMasks ==
    /\ relay = EngineRelays
    /\ average = 0
    /\ settle_change = SettleSeed
    /\ overrideBitmask = 0
    /\ call = NoCall
    /\ ticks = [i \in DOMAIN relay |-> 0]
    /\ scenario = NoScenario
    /\ FilterInit
    /\ PowerInit
    /\ oldImpl = OldImplementation
    /\ pinList = PinList(4)
    /\ overridePins = <<>>
    /\ query = NoQuery
    /\ config \in Configs
    /\ receiver = ReceiverGlobals

\* a call of the mask fn as the header defines it
CallMask(header, fn) ==
    /\ query' = [NoQuery EXCEPT !.op = fn, !.header = header,
                                !.bitmask = MaskOf(header, fn, config)]
    /\ UNCHANGED <<oldImpl, pinList, overridePins, config, receiver>>
    /\ UNCHANGED <<relayVars, scenario, filterVars, powerVars>>

NextMasks ==
    \E header \in Headers, fn \in MaskFunctions : CallMask(header, fn)

SpecMasks == InitMasks /\ [][NextMasks]_vars

----------------------------------------------------------------------------
(* Properties of a relay with a negative import threshold *)

\* C11 as stated: an ON relay configured with importThreshold -T, T > 0, is
\* turned OFF by proceed_relay only when the power exceeds T, never while
\* currentAvgPower <= T.
C11_NegativeImportOffAboveT ==
    [][\A i \in DOMAIN relay :
          (/\ call'.op = "proceed_relay" /\ call'.idx = i
           /\ relay[i].importThreshold < 0
           /\ relay[i].relayIsON /\ ~relay'[i].relayIsON)
          => call'.power > -relay[i].importThreshold]_vars

----------------------------------------------------------------------------
(* Properties of the order in which relays are shed *)

\* the relays a step turns OFF
Shed == {i \in Switched : relay[i].relayIsON}

\* C12 as stated: the relay a pass turns OFF is the one turned ON most
\* recently among the relays that are ON, which is the ON relay of highest
\* index.
C12_ShedMostRecent ==
    [][\A i \in Shed : \A j \in DOMAIN relay \ {i} :
          relay[j].relayIsON => (ticks[i] <= ticks[j] /\ j < i)]_vars

\* C12 (shedding order, amended): the relay a pass turns OFF, with no
\* override bit set, is the ON relay of highest index among those that may
\* turn OFF: the average is positive, and every ON relay of higher index has
\* its import threshold not exceeded or its minON not completed.
C12_ShedHighestEligible ==
    [][\A i \in Shed :
          /\ average > 0
          /\ \A j \in DOMAIN relay :
                (j > i /\ relay[j].relayIsON)
                => \/ average <= relay[j].importThreshold
                   \/ relay[j].duration < relay[j].minON]_vars

\* a pass has just turned relay 0 OFF and left relay 1 ON, which was turned
\* ON after relay 0
C12_Witness ==
    /\ call.op = "proceed_relays" /\ call.ret /\ call.idx = 0
    /\ ~relay[0].relayIsON /\ relay[0].duration = 0
    /\ relay[1].relayIsON /\ relay[1].duration < relay[1].minON
    /\ average > relay[1].importThreshold

----------------------------------------------------------------------------
(* Property of the end-to-end scenario *)

\* C13 (end-to-end scenario): the pass that ends the phase "surplus" turns
\* the relay ON; the pass that ends the phase "import" leaves it ON; the
\* pass that ends the phase "wait" turns it OFF.
C13_Scenario ==
    /\ scenario.phase \in {"import", "wait"} => relay[0].relayIsON
    /\ (scenario.phase = "import" /\ scenario.fed = 0) => (call.ret /\ relay[0].duration = 0)
    /\ (scenario.phase = "wait" /\ call.op = "proceed_relays") => ~call.ret
    /\ scenario.phase = "done" => (~relay[0].relayIsON /\ call.ret)

\* the scenario has run to its end: the last pass has turned the relay OFF
C13_Witness ==
    /\ scenario.phase = "done"
    /\ call.op = "proceed_relays" /\ call.ret
    /\ ~relay[0].relayIsON /\ relay[0].duration = 0
    /\ average > relay[0].importThreshold

----------------------------------------------------------------------------
(* Property of the constructor *)

\* C14 as stated: constructed with surplus 500 or with surplus -500, the
\* relay holds the same turn-ON threshold -500, and its import threshold is
\* the configured 100 or -100.
C14_SurplusStoredNegative ==
    \A i \in DOMAIN relay :
        /\ relay[i].surplusThreshold = -CtorSurplus
        /\ relay[i].importThreshold \in {CtorImport, -CtorImport}

----------------------------------------------------------------------------
(* Properties of the DC offset filter *)

\* C15 as stated: at initialisation and right after processMinusHalfCycle
\* the offset is l_filterDC_V >> 15, for every value of the accumulator.
C15_OffsetIsShift ==
    loop.op \in {"none", "processMinusHalfCycle"}
        => i_DCoffset_V = U32Shr15(l_filterDC_V)

\* C15 (filter consistency, amended): at initialisation and right after
\* processMinusHalfCycle the offset is the low 16 bits of l_filterDC_V >> 15;
\* it is l_filterDC_V >> 15 itself when the accumulator is below 2^31.
C15_OffsetIsShiftLow16 ==
    loop.op \in {"none", "processMinusHalfCycle"}
        => /\ i_DCoffset_V = U32Shr15(l_filterDC_V) % 2 ^ 16
           /\ l_filterDC_V[1] < 2 ^ 15 => i_DCoffset_V = U32Shr15(l_filterDC_V)
           /\ l_filterDC_V[1] >= 2 ^ 15 => i_DCoffset_V = U32Shr15(l_filterDC_V) - 2 ^ 16

\* processMinusHalfCycle has just run on the accumulator 4294967295: the
\* offset is 65535
C15_Witness ==
    /\ loop.op = "processMinusHalfCycle"
    /\ l_filterDC_V = U32(65535, 65535)
    /\ i_DCoffset_V = 65535

C18_DeviationBoundary ==
    loop.op = "processPolarity"
        => /\ i_DCoffset_V = 32704
           /\ i_sampleVminusDC =
                  IF loop.adc = 1023 THEN -32736 ELSE 64 * loop.adc + 32 - 32704
           /\ loop.adc = 1023 => 64 * loop.adc + 32 - 32704 > 32767

\* processPolarity has just run on the ADC value 1023: the deviation has
\* wrapped
C18_Witness ==
    /\ loop.op = "processPolarity" /\ loop.adc = 1023
    /\ i_sampleVminusDC = -32736

\* the updates within which the offset is to be within the tolerance:
\* fewer than 1000
ConvergedBy == 999

\* C17 as stated: for any constant sample, the offset has come within 500
\* of its target in fewer than 1000 half-cycle updates.
C17_ConvergesAnySample ==
    loop.cycle = ConvergedBy => loop.hit

\* C17 (convergence, amended): for a constant sample of ADC value 427..606
\* the offset has come within 500 of its target in fewer than 1000
\* half-cycle updates, and is within 500 of it at the 999th.
C17_ConvergesNearNominal ==
    (loop.cycle = ConvergedBy /\ loop.adc \in 427..606)
        => (loop.hit /\ Within(i_DCoffset_V, loop.adc))

\* the 999th update on the constant sample 606: the offset is within 500 of
\* 606 << 6 = 38784
C17_Witness ==
    /\ loop.cycle = ConvergedBy /\ loop.adc = 606
    /\ loop.hit
    /\ i_DCoffset_V >= 38784 - 500 /\ i_DCoffset_V < 38784

\* the deviation of the ADC value adc from the offset does not fit the
\* int16_t i_sampleVminusDC
Overflows(adc, offset) ==
    LET t == 64 * adc + 32 - offset
    IN  t > 32767 \/ t < -32768

\* C19 (overflow self-correction): with the ADC stuck at 1023 from the
\* nominal state, or stuck at 0 from an offset above 32800, the deviation
\* overflows at first, and after at most 2842 half-cycle updates the offset
\* is where the deviation of that input no longer overflows, and stays
\* there.
C19_OverflowCorrected ==
    /\ (loop.cycle = 0 /\ loop.adc = 1023) => Overflows(loop.adc, i_DCoffset_V)
    /\ (loop.cycle = SwitchAt /\ loop.adc = 0) => Overflows(loop.adc, i_DCoffset_V)
    /\ (loop.cycle >= 2842 /\ loop.adc \in {0, 1023})
           => /\ ~Overflows(loop.adc, i_DCoffset_V)
              /\ loop.s > 0 => i_sampleVminusDC = 64 * loop.adc + 32 - i_DCoffset_V

\* the 2842nd update with the ADC stuck at 1023: the offset has wrapped to
\* 65535, above the sample, and the deviation no longer overflows
C19_Witness ==
    /\ loop.adc = 1023 /\ loop.cycle = 2842
    /\ loop.op = "processMinusHalfCycle"
    /\ i_DCoffset_V = 65535
    /\ ~Overflows(loop.adc, i_DCoffset_V)

\* C20 (period reset): resetCycle leaves l_sumP, l_sum_Vsquared and
\* n_samples all equal to zero, from every prior accumulator state.
C20_ResetClearsAll ==
    loop.op = "resetCycle"
        => (l_sumP = 0 /\ l_sum_Vsquared = 0 /\ n_samples = 0)

\* what resetCycle does leave: l_sumP and n_samples equal to zero
ResetClearsPowerAndCount ==
    loop.op = "resetCycle" => (l_sumP = 0 /\ n_samples = 0)

\* a resetCycle after which the sum of squared voltages of the period that
\* ended is still held
ResetKeepsVsquared ==
    loop.op = "resetCycle" /\ l_sum_Vsquared > 0

\* |x|
Abs(x) == IF x < 0 THEN -x ELSE x

\* TEST_ASSERT_INT32_WITHIN(abs(oldTest.l_sumP) / 50 + 5, oldTest.l_sumP,
\* newTest.l_sumP)
PowerWithinTolerance ==
    Abs(l_sumP - oldImpl.l_sumP) <= Abs(oldImpl.l_sumP) \div 50 + 5

\* a sample is at least d counts from the ADC mid-point
FarFromMid(adc, d) == Abs(adc - ADC_MID_POINT) >= d

SetBits(bitmask, n) == {i \in 0..(n - 1) : U32Bit(bitmask, i) = 1}

\* the list was built from a combined bitmask with at most MaxPins set bits
FromSmallBitmask ==
    /\ query.ctor = "bitmask"
    /\ Cardinality(SetBits(query.bitmask, 32)) <= Len(pinList.pins)

ListedPins(list) == {list.pins[i] : i \in 1..list.count}

\* the set bits of a bitmask of up to 16 bits
Bits(x) == {b \in 0..15 : bit_read(x, b) = 1}

C24_AccessorsTotal ==
    query.op \in {"getPin", "getLocalBitmask", "getRemoteBitmask"} =>
        LET n == Len(overridePins)
            i == query.index
        IN  /\ query.read \subseteq 0..(n - 1)
            /\ i >= n => (query.ret = 0 /\ query.read = {})
            /\ i < n =>
                   /\ query.read = {i}
                   /\ query.op = "getPin" =>
                          /\ query.ret = overridePins[i + 1].pin
                          /\ query.ret = query.pairs[i + 1].pin
                   /\ query.op = "getLocalBitmask" =>
                          /\ query.ret = overridePins[i + 1].localBitmask
                          /\ \E outcome \in ShiftOutcomes :
                                 query.ret = toLocalBitmask(
                                     query.pairs[i + 1].indexList, outcome)
                   /\ query.op = "getRemoteBitmask" =>
                          /\ query.ret = overridePins[i + 1].remoteBitmask
                          /\ query.ret = toRemoteBitmask(query.pairs[i + 1].indexList)

\* getLocalBitmask(99) on the one entry { 10, { 4, 5 } }: 0, and no read
C24_Witness ==
    /\ query.op = "getLocalBitmask"
    /\ query.index = 99
    /\ Len(overridePins) = 1
    /\ overridePins[1].pin = 10
    /\ overridePins[1].localBitmask = 2 ^ 4 + 2 ^ 5
    /\ query.ret = 0
    /\ query.read = {}

\* the indices from 1 of the entries with the trigger pin `pin`
EntriesWithPin(pin) == {k \in 1..Len(overridePins) : overridePins[k].pin = pin}

\* the first of a non-empty set of indices
First(ks) == CHOOSE k \in ks : \A j \in ks : k <= j

\* C25 (lookup by trigger pin): findLocalBitmask(pin) and
\* findRemoteBitmask(pin) return the local and the remote bitmask of the
\* first entry whose trigger pin is `pin`, and 0 when no entry has it.
C25_FindFirstEntry ==
    LET hits == EntriesWithPin(query.pin)
    IN  /\ query.op = "findLocalBitmask" =>
               query.ret = IF hits = {} THEN 0
                           ELSE overridePins[First(hits)].localBitmask
        /\ query.op = "findRemoteBitmask" =>
               query.ret = IF hits = {} THEN 0
                           ELSE overridePins[First(hits)].remoteBitmask

\* two entries with the trigger pin 10, { 4, 5 } and { 6, 7, REMOTE_LOAD(2) }:
\* findLocalBitmask(10) is the local bitmask of the first
C25_Witness ==
    /\ query.op = "findLocalBitmask"
    /\ query.pin = 10
    /\ EntriesWithPin(10) = {1, 2}
    /\ overridePins[1].localBitmask = 2 ^ 4 + 2 ^ 5
    /\ overridePins[2].localBitmask = 2 ^ 6 + 2 ^ 7
    /\ query.ret = 2 ^ 4 + 2 ^ 5

\* every pin of the list lies in the allowed range 2..13
AllInRange(Pins) == \A i \in 1..Len(Pins) : Pins[i] \in 2..13

MaskOfBits(bs) ==
    U32(BitOrAll({2 ^ (b - 16) : b \in {c \in bs : c >= 16}}),
        BitOrAll({2 ^ b : b \in {c \in bs : c < 16}}))

\* the elements of a list indexed from 1
Range(f) == {f[i] : i \in 1..Len(f)}

\* C27 (aggregate masks): ALL_LOADS_AND_RELAYS() is ALL_LOADS() |
\* ALL_RELAYS(); ALL_RELAYS() is 0 when RELAY_DIVERSION is false, so that
\* ALL_LOADS_AND_RELAYS() is then ALL_LOADS(), and otherwise has exactly the
\* bits of the relays' pins; ALL_LOADS() has the local load pins in the
\* lower 16 bits and remote load i at bit 16+i.
C27_AggregateMasks ==
    LET h == query.header
        loads == MaskOf(h, "ALL_LOADS", config)
        rels == MaskOf(h, "ALL_RELAYS", config)
    IN  /\ query.op = "ALL_LOADS_AND_RELAYS" =>
               /\ query.bitmask = U32Or(loads, rels)
               /\ ~config.RELAY_DIVERSION => query.bitmask = loads
        /\ query.op = "ALL_RELAYS" =>
               query.bitmask = IF config.RELAY_DIVERSION
                               THEN MaskOfBits(Range(config.relays))
                               ELSE U32(0, 0)
        /\ query.op = "ALL_LOADS" =>
               query.bitmask =
                   MaskOfBits(Range(config.physicalLoadPin)
                                  \cup {16 + i : i \in 0..(config.NO_OF_REMOTE_LOADS - 1)})

\* C27 for the masks as utils_override_helpers.h defines them
HelpersAggregateMasks ==
    query.header = "utils_override_helpers.h" => C27_AggregateMasks

\* ALL_RELAYS() of utils_override.h with RELAY_DIVERSION false and a relay
\* on pin 4: the bit 4
OverrideRelaysWhenDisabled ==
    /\ query.op = "ALL_RELAYS"
    /\ query.header = "utils_override.h"
    /\ ~config.RELAY_DIVERSION
    /\ config.relays = <<4>>
    /\ query.bitmask = U32(0, 2 ^ 4)

----------------------------------------------------------------------------
(* Properties of the scan of proceed_relays *)

\* the relays whose own proceed_relay guard is satisfied with no override
\* bit set: proceed_relay called on the relay alone returns true
GuardSatisfied ==
    {i \in DOMAIN relay : proceed_relay(relay[i], average, 0).ret}

\* the first relay of a set in the order of the scan: lowest index when the
\* average is <= 0, highest index when it is > 0
FirstInScan(S) ==
    IF average > 0
    THEN CHOOSE i \in S : \A j \in S : j <= i
    ELSE CHOOSE i \in S : \A j \in S : i <= j

\* C28 (scan selection): in a pass of proceed_relays with settle_change = 0
\* and no override bit set, the relay that changes state is the lowest-index
\* relay whose own guard is satisfied when the average is <= 0 and the
\* highest-index one when the average is > 0; no relay changes when no guard
\* is satisfied, and every other relay is left as it was.
C28_ScanSelection ==
    [][(call'.op = "proceed_relays" /\ settle_change = 0 /\ overrideBitmask = 0)
          => /\ Switched = (IF GuardSatisfied = {} THEN {}
                            ELSE {FirstInScan(GuardSatisfied)})
             /\ \A j \in DOMAIN relay \ Switched : relay'[j] = relay[j]
             /\ overrideBitmask' = 0]_vars

\* a pass with an average <= 0 has just turned relay 0 ON and has left
\* relay 1 OFF, whose guard was satisfied as well
C28_Witness ==
    /\ call.op = "proceed_relays" /\ call.ret /\ call.idx = 0 /\ call.mask = 0
    /\ average <= 0
    /\ relay[0].relayIsON /\ relay[0].duration = 0
    /\ ~relay[1].relayIsON /\ relay[1].duration >= relay[1].minOFF
    /\ average < relay[1].surplusThreshold

----------------------------------------------------------------------------
(* The engine with relays that have no dwell time: only settle_change      *)
(* spaces their changes                                                    *)

\* relays on pins 2 and 3 constructed with minON = minOFF = 0
SpacingRelays ==
    (0 :> relayOutput(2, 1000, 200, 0, 0)) @@ (1 :> relayOutput(3, 100, 20, 0, 0))

InitSpacing ==
    /\ relay = SpacingRelays
    /\ average = 0
    /\ settle_change = SettleSeed
    /\ overrideBitmask = 0
    /\ call = NoCall
    /\ ticks = [i \in DOMAIN relay |-> 0]
    /\ OutsideRelayInit

SpecSpacing == InitSpacing /\ [][Next]_vars

----------------------------------------------------------------------------
(* Property of the spacing of relay changes *)

\* C29 (minimum spacing): a step in which a relay changes state comes after
\* at least 60 calls of inc_duration since the construction of the engine and
\* since the last change of state of every relay, whatever the average power
\* and the override bitmask.
C29_MinimumSpacing ==
    [][Switched # {} => \A j \in DOMAIN relay : ticks[j] >= 60]_vars

\* a pass given an override bit has just switched relay 1 exactly 60 calls of
\* inc_duration after the pass that turned relay 0 ON
C29_Witness ==
    /\ call.op = "proceed_relays" /\ call.ret /\ call.idx = 1 /\ call.mask # 0
    /\ ticks[1] = 0
    /\ relay[0].relayIsON /\ relay[0].duration = 60 /\ ticks[0] = 60

----------------------------------------------------------------------------
(* Properties of refused transitions *)

\* the relay a call of proceed_relay was made on keeps its ON/OFF state and
\* its duration in the step of the call
RelayUntouched ==
    /\ relay'[call'.idx].relayIsON = relay[call'.idx].relayIsON
    /\ relay'[call'.idx].duration = relay[call'.idx].duration

\* the power passed lies in the hysteresis band of the relay called, whose
\* import threshold is not negative and whose override bit is clear
InHysteresisBand ==
    LET r == relay[call'.idx]
    IN  /\ bit_read(overrideBitmask, r.relay_pin) = 0
        /\ r.importThreshold >= 0
        /\ r.surplusThreshold <= call'.power
        /\ call'.power <= r.importThreshold

\* C30 (refused transitions and hysteresis): a call of proceed_relay that
\* returns false leaves the relay's ON/OFF state and duration unchanged; with
\* the override bit clear, importThreshold >= 0 and
\* surplusThreshold <= currentAvgPower <= importThreshold the call returns
\* false and the relay does not change state, whatever its duration.
C30_RefusedUnchanged ==
    [][call'.op = "proceed_relay"
          => /\ ~call'.ret => RelayUntouched
             /\ InHysteresisBand => (~call'.ret /\ RelayUntouched)]_vars

\* proceed_relay has just returned false for a power equal to the import
\* threshold, on a relay that is ON and has completed its minON, with its
\* override bit clear
C30_Witness ==
    /\ call.op = "proceed_relay" /\ ~call.ret
    /\ bit_read(call.mask, relay[call.idx].relay_pin) = 0
    /\ relay[call.idx].importThreshold >= 0
    /\ call.power = relay[call.idx].importThreshold
    /\ relay[call.idx].relayIsON
    /\ relay[call.idx].duration >= relay[call.idx].minON
    /\ relay[call.idx].duration = ticks[call.idx]

----------------------------------------------------------------------------
(* Frame conditions of the engine *)

\* the relays a pass of proceed_relays evaluates: none while settle_change is
\* not 0; else, from the start of the scan to the relay that changed state
\* (call'.idx), or every relay when none changed (call'.idx = N)
Evaluated ==
    IF settle_change # 0 THEN {}
    ELSE IF average > 0
    THEN {i \in DOMAIN relay : call'.idx = N \/ i >= call'.idx}
    ELSE {i \in DOMAIN relay : i <= call'.idx}

\* C31 (frame conditions): inc_duration and update_average change no relay's
\* ON/OFF state and leave the override bitmask as it is; proceed_relays sets
\* no bit of the bitmask and clears only bits that are the pin of a relay it
\* evaluated in that pass.
C31_FrameConditions ==
    [][/\ call'.op \in {"inc_duration", "update_average"}
          => (Switched = {} /\ overrideBitmask' = overrideBitmask)
       /\ call'.op = "proceed_relays"
          => \A b \in 0..15 :
                /\ bit_read(overrideBitmask', b) # 0 => bit_read(overrideBitmask, b) # 0
                /\ (bit_read(overrideBitmask, b) # 0 /\ bit_read(overrideBitmask', b) = 0)
                   => \E i \in Evaluated : relay[i].relay_pin = b]_vars

\* a pass given the bits 0, 2 and 3 has turned relay 0 (pin 2) ON and stopped:
\* bit 2 is cleared, bit 3 of the relay not evaluated and bit 0 are kept
C31_Witness ==
    /\ call.op = "proceed_relays" /\ call.ret /\ call.idx = 0
    /\ call.mask = 13
    /\ overrideBitmask = 9
    /\ relay[0].relayIsON /\ ~relay[1].relayIsON

----------------------------------------------------------------------------
(* Property of the settle timer *)

\* C38 (settle timer bounds): settle_change is always within 0..60; a call of
\* inc_duration takes exactly one from it when it is positive and leaves it
\* at 0 when it is 0.
C38_SettleBounds ==
    /\ [](settle_change \in 0..60)
    /\ [][call'.op = "inc_duration"
             => settle_change' = (IF settle_change > 0 THEN settle_change - 1 ELSE 0)]_vars

\* inc_duration has just been called with settle_change at 0: more than 60
\* calls have passed since construction and since every relay's last change
C38_Witness ==
    /\ call.op = "inc_duration"
    /\ settle_change = 0
    /\ \A i \in DOMAIN relay : ticks[i] > 60

----------------------------------------------------------------------------
(* EWMA_average<D>::addValue in int32_t arithmetic                         *)
(* The sum average * (D - 1) + value is kept as hi * 2^16 + lo so that it  *)
(* can be formed beyond 32 bits; addValue above is this operator on        *)
(* operands whose sum stays within int32_t.                                *)

\* average * (D - 1) + value as <<hi, lo>>, 0 <= lo < 2^16
WeightedSum(avg, value, D) ==
    LET lowsum == (avg % 65536) * (D - 1) + (value % 65536)
    IN  <<(avg \div 65536) * (D - 1) + (value \div 65536) + (lowsum \div 65536),
          lowsum % 65536>>

\* the sum does not fit int32_t: a signed overflow, which is undefined
SumOverflows(avg, value, D) ==
    LET hi == WeightedSum(avg, value, D)[1]
    IN  hi < -32768 \/ hi > 32767

\* what a build makes of the overflowing sum: the 32-bit register wraps, or
\* the sum is formed in a wider register and only the quotient is stored
OverflowOutcomes == {"wrap", "wide"}

\* hi * 2^16 + lo divided by D, truncating toward zero
WideQuotient(sum, D) ==
    LET qh == sum[1] \div D
        rest == (sum[1] % D) * 65536 + sum[2]
        q == qh * 65536 + (rest \div D)
    IN  IF sum[1] < 0 /\ rest % D # 0 THEN q + 1 ELSE q

\* addValue whose average is kept in an int16_t
addValue32_Int16(avg, value, D, outcome) ==
    ToInt16(WideQuotient(WeightedSum(avg, value, D), D))

\* average = (average * (D - 1) + value) / D
addValue32(avg, value, D, outcome) ==
    LET sum == WeightedSum(avg, value, D)
    IN  IF SumOverflows(avg, value, D) /\ outcome = "wrap"
        THEN WideQuotient(<<((sum[1] + 32768) % 65536) - 32768, sum[2]>>, D)
        ELSE WideQuotient(sum, D)

\* the time constants of the averages fed directly: RelayEngine's default 10,
\* and 2
EwmaD == {2, 10}

\* the values fed: both ends of int32_t, large and small values of both signs
EwmaValues ==
    {-2147483647 - 1, -1000000000, -32768, -7, 0, 7, 32767, 1000000000, 2147483647}

\* addValue is called at most MaxFeeds times
MaxFeeds == 3

\* the average as constructed; scenario holds the time constant, the number
\* of values fed, the least and the greatest of 0 and the values fed, and
\* whether a sum has overflowed
InitEwma ==
    /\ relay = EngineRelays
    /\ average = 0
    /\ settle_change = SettleSeed
    /\ overrideBitmask = 0
    /\ call = NoCall
    /\ ticks = [i \in DOMAIN relay |-> 0]
    /\ \E d \in EwmaD :
          scenario = [phase |-> "addValue", fed |-> 0, D |-> d, lo |-> 0, hi |-> 0,
                      overflowed |-> FALSE]
    /\ FilterInit
    /\ PowerInit
    /\ OtherInit

\* EWMA_average<D>::addValue(value)
AddValue(value, outcome) ==
    /\ scenario.fed < MaxFeeds
    /\ average' = addValue32(average, value, scenario.D, outcome)
    /\ call' = [op |-> "addValue", idx |-> 0, power |-> value, mask |-> 0,
                ret |-> SumOverflows(average, value, scenario.D)]
    /\ scenario' = [scenario EXCEPT
                       !.fed = @ + 1,
                       !.lo = IF value < @ THEN value ELSE @,
                       !.hi = IF value > @ THEN value ELSE @,
                       !.overflowed = @ \/ SumOverflows(average, value, scenario.D)]
    /\ UNCHANGED <<relay, settle_change, overrideBitmask, ticks>>
    /\ UNCHANGED <<filterVars, powerVars, otherVars>>

NextEwma == \E v \in EwmaValues, o \in OverflowOutcomes : AddValue(v, o)

SpecEwma == InitEwma /\ [][NextEwma]_vars

----------------------------------------------------------------------------
(* Properties of the EWMA *)

\* the new average lies between the previous average and the value fed
BetweenPreviousAndValue ==
    /\ (IF average < call'.power THEN average ELSE call'.power) <= average'
    /\ average' <= (IF average > call'.power THEN average ELSE call'.power)

\* C39 as stated: after every addValue(v) the new average lies between the
\* previous average and v inclusive, and within the range spanned by 0 and
\* the values fed so far.
C39_EwmaRangeAllValues ==
    [][call'.op = "addValue"
          => /\ BetweenPreviousAndValue
             /\ scenario'.lo <= average' /\ average' <= scenario'.hi]_vars

\* C39 (EWMA range, amended): after an addValue(v) whose sum
\* average * (D - 1) + v fits int32_t the new average lies between the
\* previous average and v inclusive; while no sum has overflowed it lies
\* within the range spanned by 0 and the values fed so far.
C39_EwmaRangeNoOverflow ==
    [][call'.op = "addValue"
          => /\ ~call'.ret => BetweenPreviousAndValue
             /\ ~scenario'.overflowed
                => (scenario'.lo <= average' /\ average' <= scenario'.hi)]_vars

\* three values have been fed without overflow, the last a negative one into
\* a positive average: the average has moved down but is still above it
C39_Witness ==
    /\ call.op = "addValue" /\ ~scenario.overflowed
    /\ scenario.fed = 3 /\ scenario.D = 10
    /\ call.power = -7
    /\ average > 1000
    /\ scenario.hi = 1000000000

----------------------------------------------------------------------------
(* RemoteLoadReceiver: config.h and receiver.cpp                           *)
(* unsigned long is the 32-bit type of the target; millis() is the clock   *)
(* of the board, which wraps at 2^32.                                      *)

NO_OF_LOADS == 2

\* loadPins[NO_OF_LOADS]{ 4, 3 }, indexed from 1
loadPins == <<4, 3>>

GREEN_LED_PIN == 5

RED_LED_PIN == 7

RF_TIMEOUT_MS == 500

RED_LED_INTERVAL_MS == 125

\* RFConfig::ROUTER_NODE_ID, of config_rf.h
ROUTER_NODE_ID == 1

\* a + b on uint32_t values
U32Add(a, b) ==
    LET t == a[2] + b[2]
    IN  U32((a[1] + b[1] + (t \div 2 ^ 16)) % 2 ^ 16, t % 2 ^ 16)

\* a - b on uint32_t values: the difference modulo 2^32
U32Sub(a, b) ==
    LET t == a[2] - b[2]
    IN  U32((a[1] - b[1] + (t \div 2 ^ 16)) % 2 ^ 16, t % 2 ^ 16)

\* a <= n, for a uint32_t a and a constant n below 2^16
U32AtMost(a, n) == a[1] = 0 /\ a[2] <= n

\* bit(n) of Arduino.h: 1UL << n
bit(n) == 2 ^ n

\* utils_pins.h: the pins of the mask are driven HIGH / LOW, one pin is
\* driven LOW, one pin changes level; the other pins keep their level
setPinsON(port, mask) == BitOr(port, mask)

setPinsOFF(port, mask) == BitAnd(port, UINT16_MAX - mask, 16)

setPinOFF(port, pin) == setPinsOFF(port, bit(pin))

togglePin(port, pin) ==
    IF bit_read(port, pin) = 1 THEN setPinsOFF(port, bit(pin)) ELSE setPinsON(port, bit(pin))

\* i = NO_OF_LOADS; do { --i; mask |= bit(loadPins[i]); } while (i);
AllLoadPins == BitOrAll({bit(loadPins[i + 1]) : i \in 0..(NO_OF_LOADS - 1)})

\* initializeReceiver(): load pins and LED pins OFF, lastMessageTime = millis()
initializeReceiver(r) ==
    [r EXCEPT !.port = setPinsOFF(setPinsOFF(r.port, AllLoadPins),
                                  BitOr(bit(GREEN_LED_PIN), bit(RED_LED_PIN))),
              !.lastMessageTime = r.millis]

\* updateLoads that drives every load pin from bit 0 of the bitmask
updateLoads_Bit0(port, bitmask) ==
    IF bit_read(bitmask, 0) = 1 THEN setPinsON(port, AllLoadPins)
    ELSE setPinsOFF(port, AllLoadPins)

\* updateLoads(bitmask): the port afterwards
updateLoads(port, bitmask) ==
    LET on == {i \in 0..(NO_OF_LOADS - 1) : bit_read(bitmask, i) = 1}
        pinsON == BitOrAll({bit(loadPins[i + 1]) : i \in on})
        pinsOFF == BitOrAll({bit(loadPins[i + 1]) : i \in (0..(NO_OF_LOADS - 1)) \ on})
    IN  setPinsON(setPinsOFF(port, pinsOFF), pinsON)

\* updateStatusLED()
updateStatusLED(r) ==
    IF r.rfStatus # "RF_LOST"
    THEN [r EXCEPT !.port = setPinOFF(r.port, RED_LED_PIN)]
    ELSE IF U32AtMost(U32Sub(r.millis, r.lastRedLedToggle), RED_LED_INTERVAL_MS)
    THEN r
    ELSE [r EXCEPT !.port = togglePin(r.port, RED_LED_PIN),
                   !.lastRedLedToggle = r.millis]

\* processRfMessages that takes the packets of every sender
processRfMessages_AnySender(r, received, SENDERID, DATA) ==
    IF ~received THEN r
    ELSE [r EXCEPT !.receivedData.loadBitmask = DATA,
                   !.port = updateLoads(r.port, DATA),
                   !.lastMessageTime = r.millis,
                   !.rfStatus = "RF_OK"]

\* processRfMessages that restores the link without restarting the timeout
processRfMessages_NoRestart(r, received, SENDERID, DATA) ==
    IF ~received THEN r
    ELSE IF SENDERID # ROUTER_NODE_ID THEN r
    ELSE [r EXCEPT !.receivedData.loadBitmask = DATA,
                   !.port = updateLoads(r.port, DATA),
                   !.rfStatus = "RF_OK"]

\* processRfMessages(), radio.receiveDone() returning `received` and the
\* packet being (SENDERID, DATA[0])
processRfMessages(r, received, SENDERID, DATA) ==
    IF ~received THEN r
    ELSE IF SENDERID # ROUTER_NODE_ID THEN r
    ELSE [r EXCEPT !.receivedData.loadBitmask = DATA,
                   !.port = updateLoads(r.port, DATA),
                   !.lastMessageTime = r.millis,
                   !.rfStatus = "RF_OK"]

\* checkRfTimeout that declares the link lost without switching the loads
checkRfTimeout_KeepLoads(r) ==
    IF U32AtMost(U32Sub(r.millis, r.lastMessageTime), RF_TIMEOUT_MS) THEN r
    ELSE IF r.rfStatus = "RF_LOST" THEN r
    ELSE [r EXCEPT !.rfStatus = "RF_LOST", !.previousLoadBitmask = 255]

\* checkRfTimeout that compares the two times instead of their difference
checkRfTimeout_Compare(r) ==
    IF \/ r.millis[1] < r.lastMessageTime[1]
       \/ U32AtMost(U32Sub(r.millis, r.lastMessageTime), RF_TIMEOUT_MS)
    THEN r
    ELSE IF r.rfStatus = "RF_LOST" THEN r
    ELSE [r EXCEPT !.rfStatus = "RF_LOST",
                   !.port = setPinsOFF(r.port, AllLoadPins),
                   !.previousLoadBitmask = 255]

\* checkRfTimeout()
checkRfTimeout(r) ==
    IF U32AtMost(U32Sub(r.millis, r.lastMessageTime), RF_TIMEOUT_MS) THEN r
    ELSE IF r.rfStatus = "RF_LOST" THEN r
    ELSE [r EXCEPT !.rfStatus = "RF_LOST",
                   !.port = setPinsOFF(r.port, AllLoadPins),
                   !.previousLoadBitmask = 255]

\* the nodes whose packets arrive: the router and another node
Senders == {ROUTER_NODE_ID, ROUTER_NODE_ID + 1}

\* the payloads: both loads OFF, load 0 ON, load 1 ON with every bit above
\* the loads set
Payloads == {0, 1, 254}

\* what passes on the clock between two rounds of loop(): 1 ms, 250 ms, and
\* 2^31 - 250 ms (two of which lead to 500 ms before the clock wraps)
ClockSteps == {U32(0, 1), U32(0, 250), U32(32767, 65286)}

\* the clock advances at most MaxClockTicks times
MaxClockTicks == 5

\* a step of the program: what it does to the globals, then the next step;
\* setup and a packet of the router restart the time elapsed
Step(op, r, next, received, SENDERID, DATA) ==
    receiver' = [r EXCEPT
                    !.pc = next,
                    !.step = [op |-> op, received |-> received,
                              SENDERID |-> SENDERID, DATA |-> DATA],
                    !.ticked = FALSE,
                    !.elapsed = IF op = "setup" \/ (received /\ SENDERID = ROUTER_NODE_ID)
                                THEN <<0, 0>> ELSE @]

\* setup()
Setup ==
    /\ receiver.pc = "setup"
    /\ Step("setup", initializeReceiver(receiver), "processRfMessages", FALSE, 0, 0)
    /\ UNCHANGED <<relayVars, scenario, filterVars, powerVars>>
    /\ UNCHANGED <<oldImpl, pinList, overridePins, query, config>>

\* loop(): processRfMessages();
ProcessRfMessages(received, SENDERID, DATA) ==
    /\ receiver.pc = "processRfMessages"
    /\ Step("processRfMessages", processRfMessages(receiver, received, SENDERID, DATA),
            "checkRfTimeout", received, SENDERID, DATA)
    /\ UNCHANGED <<relayVars, scenario, filterVars, powerVars>>
    /\ UNCHANGED <<oldImpl, pinList, overridePins, query, config>>

\* loop(): checkRfTimeout();
CheckRfTimeout ==
    /\ receiver.pc = "checkRfTimeout"
    /\ Step("checkRfTimeout", checkRfTimeout(receiver), "updateStatusLED", FALSE, 0, 0)
    /\ UNCHANGED <<relayVars, scenario, filterVars, powerVars>>
    /\ UNCHANGED <<oldImpl, pinList, overridePins, query, config>>

\* loop(): updateStatusLED();
UpdateStatusLED ==
    /\ receiver.pc = "updateStatusLED"
    /\ Step("updateStatusLED", updateStatusLED(receiver), "processRfMessages", FALSE, 0, 0)
    /\ UNCHANGED <<relayVars, scenario, filterVars, powerVars>>
    /\ UNCHANGED <<oldImpl, pinList, overridePins, query, config>>

\* ISR(TIMER1_COMPA_vect), enabled by initializeWatchdogTimer(): the timer
\* fires when time has passed
TimerISR ==
    /\ receiver.pc # "setup"
    /\ receiver.ticked
    /\ receiver' = [receiver EXCEPT !.port = togglePin(@, GREEN_LED_PIN)]
    /\ UNCHANGED <<relayVars, scenario, filterVars, powerVars>>
    /\ UNCHANGED <<oldImpl, pinList, overridePins, query, config>>

\* time passes before setup() and between two rounds of loop(), less than
\* 2^32 ms at a time: millis() advances by d
Tick(d) ==
    /\ receiver.pc \in {"setup", "processRfMessages"}
    /\ ~receiver.ticked
    /\ receiver.ticks < MaxClockTicks
    /\ receiver' = [receiver EXCEPT
                       !.millis = U32Add(@, d),
                       !.elapsed = <<@[1] + d[1] + ((@[2] + d[2]) \div 2 ^ 16),
                                     (@[2] + d[2]) % 2 ^ 16>>,
                       !.ticks = @ + 1,
                       !.ticked = TRUE]
    /\ UNCHANGED <<relayVars, scenario, filterVars, powerVars>>
    /\ UNCHANGED <<oldImpl, pinList, overridePins, query, config>>

NextReceiver ==
    \/ Setup
    \/ ProcessRfMessages(FALSE, 0, 0)
    \/ \E s \in Senders, d \in Payloads : ProcessRfMessages(TRUE, s, d)
    \/ CheckRfTimeout
    \/ UpdateStatusLED
    \/ TimerISR
    \/ \E d \in ClockSteps : Tick(d)

SpecReceiver == Init /\ [][NextReceiver]_vars

----------------------------------------------------------------------------
(* Properties of the RemoteLoadReceiver *)

\* the load indices whose pin is HIGH
LoadsON == {i \in 0..(NO_OF_LOADS - 1) : bit_read(receiver.port, loadPins[i + 1]) = 1}

\* C32 (RF-lost fail-safe): once initialised, at every boundary between the
\* steps of loop(), rfStatus = RF_LOST implies that every load pin is OFF.
C32_LostMeansLoadsOff ==
    (receiver.pc # "setup" /\ receiver.rfStatus = "RF_LOST") => LoadsON = {}

\* checkRfTimeout has just declared the link lost after a packet had turned
\* load 0 ON
C32_Witness ==
    /\ receiver.step.op = "checkRfTimeout"
    /\ receiver.rfStatus = "RF_LOST"
    /\ receiver.receivedData.loadBitmask = 1
    /\ receiver.previousLoadBitmask = 255
    /\ LoadsON = {}
    /\ ~U32AtMost(U32Sub(receiver.millis, receiver.lastMessageTime), 500)

\* the time elapsed is more than RF_TIMEOUT_MS
TimedOut == receiver.elapsed[1] > 0 \/ receiver.elapsed[2] > 500

\* the step is a call of checkRfTimeout
IsCheckRfTimeout == receiver.pc = "checkRfTimeout" /\ receiver'.pc = "updateStatusLED"

\* the step is a call of processRfMessages that receives a packet of the router
IsRouterPacket ==
    /\ receiver.pc = "processRfMessages" /\ receiver'.pc = "checkRfTimeout"
    /\ receiver'.step.received /\ receiver'.step.SENDERID = ROUTER_NODE_ID

\* C33 (RF link status transitions): rfStatus goes from OK to LOST only in a
\* call of checkRfTimeout made more than 500 ms after the last accepted
\* message; every call of checkRfTimeout made then with status OK sets LOST
\* and turns every load OFF; rfStatus goes from LOST to OK only when a packet
\* of ROUTER_NODE_ID is accepted, which sets lastMessageTime to the time of
\* the call.
C33_StatusTransitions ==
    [][/\ (receiver.rfStatus = "RF_OK" /\ receiver'.rfStatus = "RF_LOST")
          => (IsCheckRfTimeout /\ TimedOut)
       /\ (IsCheckRfTimeout /\ TimedOut /\ receiver.rfStatus = "RF_OK")
          => /\ receiver'.rfStatus = "RF_LOST"
             /\ \A i \in 0..(NO_OF_LOADS - 1) :
                   bit_read(receiver'.port, loadPins[i + 1]) = 0
       /\ (receiver.rfStatus = "RF_LOST" /\ receiver'.rfStatus = "RF_OK")
          => (IsRouterPacket /\ receiver'.lastMessageTime = receiver.millis)
       /\ IsRouterPacket
          => (receiver'.rfStatus = "RF_OK" /\ receiver'.lastMessageTime = receiver.millis)]_vars

\* checkRfTimeout has just declared the link lost 501 ms after the packet
\* that turned load 1 ON
C33_Witness ==
    /\ receiver.step.op = "checkRfTimeout"
    /\ receiver.rfStatus = "RF_LOST"
    /\ receiver.elapsed = <<0, 501>>
    /\ receiver.receivedData.loadBitmask = 254
    /\ LoadsON = {}

\* the step is a call of processRfMessages that receives no packet, or a
\* packet of a sender other than the router
IsForeignOrNoPacket ==
    /\ receiver.pc = "processRfMessages" /\ receiver'.pc = "checkRfTimeout"
    /\ ~receiver'.step.received \/ receiver'.step.SENDERID # ROUTER_NODE_ID

\* C34 (foreign senders are ignored): a call of processRfMessages that
\* receives no packet, or a packet whose SENDERID is not ROUTER_NODE_ID,
\* leaves the pins, receivedData, lastMessageTime and rfStatus unchanged.
C34_ForeignIgnored ==
    [][IsForeignOrNoPacket
          => /\ receiver'.port = receiver.port
             /\ receiver'.receivedData = receiver.receivedData
             /\ receiver'.lastMessageTime = receiver.lastMessageTime
             /\ receiver'.rfStatus = receiver.rfStatus]_vars

\* a packet of another node asking for load 0 has just been received while
\* the link is up and load 1 is ON, 250 ms after the router's packet
C34_Witness ==
    /\ receiver.step.op = "processRfMessages"
    /\ receiver.step.received /\ receiver.step.SENDERID # ROUTER_NODE_ID
    /\ receiver.step.DATA = 1
    /\ receiver.rfStatus = "RF_OK"
    /\ receiver.receivedData.loadBitmask = 254
    /\ LoadsON = {1}
    /\ receiver.elapsed = <<0, 250>>

\* the pins 0..15 that are not load pins
OtherPins == (0..15) \ {loadPins[i + 1] : i \in 0..(NO_OF_LOADS - 1)}

\* the port `after` is the port `before` with load pin i ON exactly when bit i
\* of the bitmask is set, the pins that are no load pin being as before
LoadsFollow(before, after, bitmask) ==
    /\ \A i \in 0..(NO_OF_LOADS - 1) :
          bit_read(after, loadPins[i + 1]) = bit_read(bitmask, i)
    /\ \A p \in OtherPins : bit_read(after, p) = bit_read(before, p)

\* C35 (updateLoads mapping): after updateLoads(bitmask), for every load index
\* i < NO_OF_LOADS the pin loadPins[i] is ON if and only if bit i of the
\* bitmask is set, whatever the bits from NO_OF_LOADS up, and no other pin has
\* changed.
C35_UpdateLoadsMapping ==
    [][IsRouterPacket
          => LoadsFollow(receiver.port, receiver'.port, receiver'.step.DATA)]_vars

\* a router packet with payload 254 has just turned load 0 (pin 4) OFF and
\* load 1 (pin 3) ON, the two LED pins being HIGH
C35_Witness ==
    /\ receiver.step.op = "processRfMessages"
    /\ receiver.step.received /\ receiver.step.SENDERID = ROUTER_NODE_ID
    /\ receiver.step.DATA = 254
    /\ bit_read(receiver.port, 4) = 0 /\ bit_read(receiver.port, 3) = 1
    /\ bit_read(receiver.port, GREEN_LED_PIN) = 1
    /\ bit_read(receiver.port, RED_LED_PIN) = 1

\* the time elapsed since the last accepted message, modulo 2^32
ElapsedMod32 == U32(receiver.elapsed[1] % 2 ^ 16, receiver.elapsed[2])

\* C37 (timeout arithmetic across the wraparound of millis()): a call of
\* checkRfTimeout leaves the link LOST exactly when it was LOST already or
\* (now - last) mod 2^32 > 500, now - last being the time elapsed since
\* lastMessageTime was taken, also when millis() has wrapped in between; the
\* difference the code computes is that time modulo 2^32.
C37_TimeoutAcrossWrap ==
    [][IsCheckRfTimeout
          => /\ U32Sub(receiver.millis, receiver.lastMessageTime) = ElapsedMod32
             /\ (receiver'.rfStatus = "RF_LOST")
                <=> (\/ receiver.rfStatus = "RF_LOST"
                     \/ ElapsedMod32[1] > 0
                     \/ ElapsedMod32[2] > 500)]_vars

\* checkRfTimeout has just declared the link lost at millis() = 1, the last
\* packet having been accepted at 2^32 - 500
C37_Witness ==
    /\ receiver.step.op = "checkRfTimeout"
    /\ receiver.rfStatus = "RF_LOST"
    /\ receiver.millis = U32(0, 1)
    /\ receiver.lastMessageTime = U32(65535, 65036)
    /\ receiver.receivedData.loadBitmask = 1

\* the link is up at millis() = 0, 500 ms after the packet accepted at
\* 2^32 - 500
UpAcrossWrap ==
    /\ receiver.step.op = "checkRfTimeout"
    /\ receiver.rfStatus = "RF_OK"
    /\ receiver.millis = U32(0, 0)
    /\ receiver.lastMessageTime = U32(65535, 65036)

----------------------------------------------------------------------------
(* The filter fed a constant sample from its nominal state, with a number  *)
(* of samples between two sim_processMinusHalfCycle that differs from run  *)
(* to run: the 80 of test_adc_stuck_at_zero, the 160 of                    *)
(* test_accumulator_no_wrap_normal_operation, and numbers around 2^15      *)

\* the constant samples fed: the ends of the range 0..1022 and the nominal
\* value
TrackAdc == {0, 511, 1022}

\* the samples fed between two updates of the offset
TrackSamples == {80, 160, 32768, 32769, 32801}

\* a run feeds MaxTrackSamples samples
MaxTrackSamples == 33000

\* the samples fed so far
Fed == loop.cycle * scenario.n + loop.s

\* the state before the loop, for the constant sample of ADC value a and n
\* samples between two updates
TrackStart(a, n) ==
    /\ relay = EngineRelays
    /\ average = 0
    /\ settle_change = SettleSeed
    /\ overrideBitmask = 0
    /\ call = NoCall
    /\ ticks = [i \in DOMAIN relay |-> 0]
    /\ scenario = [phase |-> "track", fed |-> 0, n |-> n]
    /\ PowerInit
    /\ OtherInit
    /\ i_DCoffset_V = i_DCoffset_V_nom
    /\ l_filterDC_V = U32Shl15(i_DCoffset_V_nom)
    /\ i_sampleVminusDC = 0
    /\ loop = [NoLoop EXCEPT !.adc = a]

InitTrack == \E a \in TrackAdc, n \in TrackSamples : TrackStart(a, n)

\* one turn of the inner loop on the constant sample loop.adc:
\* sim_processPolarity(leftAlignADC(adc)); sim_processVoltage()
TrackSample ==
    LET d == sim_processPolarity(leftAlignADC(loop.adc), i_DCoffset_V)
    IN  /\ loop.s < scenario.n
        /\ Fed < MaxTrackSamples
        /\ i_sampleVminusDC' = d
        /\ l_filterDC_V' = sim_processVoltage(l_filterDC_V, d)
        /\ loop' = [loop EXCEPT !.op = "processVoltage", !.s = @ + 1]
        /\ UNCHANGED i_DCoffset_V
        /\ UNCHANGED outsideFilter

\* the end of a turn of the outer loop: sim_processMinusHalfCycle()
TrackUpdate ==
    /\ loop.s = scenario.n
    /\ i_DCoffset_V' = sim_processMinusHalfCycle(l_filterDC_V)
    /\ loop' = [loop EXCEPT !.op = "processMinusHalfCycle", !.s = 0,
                            !.cycle = @ + 1]
    /\ UNCHANGED <<l_filterDC_V, i_sampleVminusDC>>
    /\ UNCHANGED outsideFilter

NextTrack ==
    \/ TrackSample
    \/ TrackUpdate

SpecTrack == InitTrack /\ [][NextTrack]_vars

\* a < b, for two uint32_t
U32Less(a, b) == a[1] < b[1] \/ (a[1] = b[1] /\ a[2] < b[2])

\* l_filterDC_V += d wrapped around: it went below 0 or above 2^32 - 1
Wrapped(before, d, after) ==
    \/ d < 0 /\ U32Less(before, after)
    \/ d > 0 /\ U32Less(after, before)

\* the sample value the filter compares its offset with: rawSample | 32U
Target == Or32(leftAlignADC(loop.adc))

\* the offset moved toward the sample value, or stayed, and did not pass it
Toward(before, after) ==
    IF before <= Target
    THEN before <= after /\ after <= Target
    ELSE Target <= after /\ after <= before

\* a step of the loop: sim_processVoltage does not wrap the accumulator
\* around, and sim_processMinusHalfCycle moves the offset toward the sample
\* value without passing it
TrackStep ==
    /\ loop'.op = "processVoltage"
         => ~Wrapped(l_filterDC_V, i_sampleVminusDC', l_filterDC_V')
    /\ loop'.op = "processMinusHalfCycle"
         => Toward(i_DCoffset_V, i_DCoffset_V')

\* C36 as stated (monotone tracking without wraparound): from the nominal
\* state, fed a constant sample of ADC value in 0..1022, the accumulator
\* never wraps around and the offset moves monotonically toward the sample
\* value without overshooting it, for any number of samples and half-cycle
\* updates
C36_TrackAnyCount == [][TrackStep]_vars

\* C36 (monotone tracking without wraparound): from the nominal state, fed
\* a constant sample of ADC value in 0..1022 with at most 2^15 samples
\* between two half-cycle updates, the accumulator never wraps around and
\* the offset moves monotonically toward the sample value (rawSample | 32)
\* without overshooting it
C36_TrackBoundedCount == [][scenario.n <= 2 ^ 15 => TrackStep]_vars

\* the ADC stuck at 0 with 2^15 samples between two updates: the update
\* has brought the offset from 32704 to the sample value 32
C36_Witness ==
    /\ scenario.phase = "track"
    /\ scenario.n <= 2 ^ 15
    /\ loop.adc = 0
    /\ loop.op = "processMinusHalfCycle"
    /\ i_DCoffset_V = Target
    /\ i_DCoffset_V < i_DCoffset_V_nom

\* the ADC stuck at 0 and 32801 samples fed without an update: the
\* accumulator has gone below 0 and stands near 2^32
C36_WrappedBelow ==
    /\ scenario.phase = "track"
    /\ loop.adc = 0
    /\ loop.op = "processVoltage"
    /\ l_filterDC_V[1] = 2 ^ 16 - 1

====
